---- MODULE Spec2Model ----
(***************************************************************************)
(* events_api: authentication / token lifecycle (src/user_auth,            *)
(* src/security, src/data_base/crud.py) and event ingestion                *)
(* (src/endpoint_events).                                                  *)
(*                                                                         *)
(* Time is counted in ticks of 1/TicksPerSec second, so that the           *)
(* truncations of the code (int(exp.timestamp()), int(total_seconds()),    *)
(* Redis' whole-second EX / TTL) are visible.                              *)
(***************************************************************************)
EXTENDS Integers, Sequences, FiniteSets, TLC

VARIABLES
    now,        \* wall clock, in ticks
    users,      \* table "users": set of rows [id, email, hashed_password]
    redis,      \* the token cache: [access, refresh, revoked, user_sessions]
    nextJti,    \* number of uuid4() identifiers drawn so far
    minted,     \* every token jwt_service has signed so far
    rotated,    \* refresh tokens whose refresh request completed with 200
    closed,     \* refresh tokens whose logout request completed with 204
    pwRevoked,  \* jtis of the refresh entries a user held when change-password returned 204
    last,       \* the last request served: operation, response, token, caller
    reg,        \* registration race: per request [pc, email, status]
    inflight,   \* refresh race: per request [pc, token, status, passed]
    store,      \* table "events": set of rows [event_id, user_id, txn]
    jobs,       \* ingestion jobs: per job [pc, kind, batch, held, returning, inserted]
    ingested,   \* the last response of POST /events/
    imp,        \* import_csv: its locals, the calls of insert_batch, the engine
    resources   \* the Resources singleton: its handles, _started, the last call

vars == <<now, users, redis, nextJti, minted, rotated, closed, pwRevoked, last,
          reg, inflight, store, jobs, ingested, imp, resources>>

authVars == <<now, users, redis, nextJti, minted, rotated, closed, pwRevoked, last>>
regVars == <<reg, inflight>>
ingestVars == <<store, jobs, ingested, imp>>
infraVars == <<resources>>

----------------------------------------------------------------------------
(* Bounds of the model *)

TicksPerSec == 2     \* clock resolution: ticks per second
MaxTime == 4         \* the clock stops after this many ticks
MaxJti == 4          \* uuid4() draws available to issue_tokens_for_user
MaxRotateJti == 6    \* the same, where only login and refresh are taken
AccessTtlSec == 1    \* timedelta(minutes=15), scaled to seconds of the model
RefreshTtlSec == 2   \* timedelta(days=1), scaled
LeewaySec == 1       \* options={"leeway": 30}, scaled
MaxUsers == 1        \* rows the table "users" may hold
MaxRegs == 3         \* concurrent register requests
MaxBatch == 3        \* events in one submitted batch
MaxDupBatch == 2     \* longest batch that may repeat an event id
MaxEventUser == 3    \* user ids an event may name (the last one has no row)
MaxJobs == 2         \* concurrent ingestion jobs
MaxRaceBatch == 2    \* events in the batch of a concurrent job
MaxRefreshes == 2    \* concurrent refresh requests
MaxCodecTokens == 2  \* tokens made where the codec is taken on its own
MaxCacheJti == 3     \* identifiers drawn where the cache is taken on its own
MaxCsvRows == 4      \* data lines of an imported CSV file
MaxBatchSize == 3    \* --batch-size of the import
MaxStoreJti == 1     \* identifiers the callers of the cache writers may pass
MaxHeaderParts == 3  \* pieces an Authorization header is made of
MaxHandles == 12     \* clients, services and tasks Resources.start may create

Emails == {"a@x.io", "b@x.io"}
Passwords == {"Passw0rd!", "N3wpass!!"}

Max(a, b) == IF a >= b THEN a ELSE b

----------------------------------------------------------------------------
(* Settings (src/config.py) and the literals of jwt_service.py *)

ACCESS_SECRET == "access-secret"
REFRESH_SECRET == "refresh-secret"
JWT_ISSUER == "your-auth"
JWT_AUDIENCE == "auth_api"
MintAudience == "auth_api"       \* _jwt_common_claims: "aud"
MintIssuer == "your-auth"        \* _jwt_common_claims: "iss"
DecodeAudience == "your-api"     \* decode_token: audience=
DecodeIssuer == "your-auth"      \* decode_token: issuer=

----------------------------------------------------------------------------
(* Password hashing (src/user_auth/utils.py) *)

get_password_hash(password) == <<"bcrypt", password>>

verify_password(plain_password, hashed_password) ==
    hashed_password = <<"bcrypt", plain_password>>

----------------------------------------------------------------------------
(* Token codec (src/security/jwt_service.py).  A token is the record of    *)
(* its claims and of the secret that signed it; exp is in whole seconds.   *)

NowSec(t) == t \div TicksPerSec

_jwt_common_claims(sub, token_type, jti) ==
    [sub |-> sub, type |-> token_type, jti |-> jti,
     iss |-> MintIssuer, aud |-> MintAudience]

Sign(claims, expTick, secret) ==
    [sub |-> claims.sub, type |-> claims.type, jti |-> claims.jti,
     iss |-> claims.iss, aud |-> claims.aud,
     exp |-> expTick \div TicksPerSec, key |-> secret]

\* get_settings(): the two signing secrets of the deployment
Settings == [ACCESS_SECRET |-> ACCESS_SECRET, REFRESH_SECRET |-> REFRESH_SECRET]

\* make_access_token / make_refresh_token under given settings
make_access_token_under(settings, sub, jti, expTick) ==
    Sign(_jwt_common_claims(sub, "access", jti), expTick, settings.ACCESS_SECRET)

make_refresh_token_under(settings, sub, jti, expTick) ==
    Sign(_jwt_common_claims(sub, "refresh", jti), expTick, settings.REFRESH_SECRET)

make_access_token(sub, jti, expTick) ==
    make_access_token_under(Settings, sub, jti, expTick)

make_refresh_token(sub, jti, expTick) ==
    make_refresh_token_under(Settings, sub, jti, expTick)

\* a claim the token does not carry
Absent == -1

\* jwt.decode of PyJWT: signature, the required claims, then exp (no
\* leeway), audience, issuer.
JwtDecodeOk(token, secret, audience, issuer, t) ==
    /\ token.key = secret
    /\ Absent \notin {token.exp, token.sub, token.jti}
    /\ token.exp > NowSec(t)
    /\ token.aud = audience
    /\ token.iss = issuer

decode_token_unverified(token, expected_type, t) ==
    IF token.type # expected_type THEN 400 ELSE 200

\* decode_token under given settings: the status it ends with (200 stands
\* for "returns the payload")
decode_token_under(settings, token, expected_type, t) ==
    LET secret == IF expected_type = "access" THEN settings.ACCESS_SECRET
                                              ELSE settings.REFRESH_SECRET
    IN  IF ~JwtDecodeOk(token, secret, DecodeAudience, DecodeIssuer, t) THEN 401
        ELSE IF token.type # expected_type THEN 400
        ELSE 200

decode_token(token, expected_type, t) ==
    decode_token_under(Settings, token, expected_type, t)

----------------------------------------------------------------------------
(* Redis, as the cache collaborator: a key family is a function from the   *)
(* jti to [val, exp], exp being the tick at which the key stops existing.  *)

NoKeys == [j \in {} |-> [val |-> 0, exp |-> 0]]

EmptyRedis ==
    [access |-> NoKeys, refresh |-> NoKeys, revoked |-> NoKeys, user_sessions |-> {}]

KeyLive(f, j, t) == j \in DOMAIN f /\ f[j].exp > t

\* SET key value EX ttl
RedisSetEx(f, j, v, ttl, t) ==
    [k \in DOMAIN f \cup {j} |->
        IF k = j THEN [val |-> v, exp |-> t + ttl * TicksPerSec] ELSE f[k]]

\* DEL key
RedisDel(f, j) == [k \in DOMAIN f \ {j} |-> f[k]]

\* TTL key: -2 when the key does not exist, else the remaining time rounded
\* to the nearest second ((ms + 500) / 1000)
RedisTtl(f, j, t) ==
    IF ~KeyLive(f, j, t) THEN -2
    ELSE (2 * (f[j].exp - t) + TicksPerSec) \div (2 * TicksPerSec)

\* the keys Redis has expired by tick t are gone
RedisExpire(r, t) ==
    LET liveOf(f) == [k \in {j \in DOMAIN f : f[j].exp > t} |-> f[k]]
    IN  [access |-> liveOf(r.access), refresh |-> liveOf(r.refresh),
         revoked |-> liveOf(r.revoked), user_sessions |-> r.user_sessions]

----------------------------------------------------------------------------
(* TokenCache (src/security/token_cache.py).  exp arguments are ticks.     *)

_ttl_from_exp(expTick, t) == Max((expTick - t) \div TicksPerSec, 0)

register_refresh(r, user_id, jti, payload, expTick, t) ==
    LET ttl == _ttl_from_exp(expTick, t)
    IN  IF ttl <= 0 THEN r
        ELSE [r EXCEPT !.refresh = RedisSetEx(@, jti, payload, ttl, t),
                       !.user_sessions = @ \cup {<<user_id, jti>>}]

ttl_of_refresh(r, jti, t) == RedisTtl(r.refresh, jti, t)

\* revoke_refresh without the DEL of the refresh entry
revoke_refresh_keeps_entry(r, jti, t) ==
    LET ttl == ttl_of_refresh(r, jti, t)
    IN  IF ttl <= 0 THEN [ok |-> FALSE, r |-> r]
        ELSE [ok |-> TRUE,
              r |-> [r EXCEPT !.revoked = RedisSetEx(@, jti, "1", ttl, t)]]

\* revoke_refresh that, finding no refresh entry, clears the marker of the jti
revoke_refresh_clears_absent(r, jti, t) ==
    LET ttl == ttl_of_refresh(r, jti, t)
    IN  IF ttl <= 0 THEN [ok |-> FALSE, r |-> [r EXCEPT !.revoked = RedisDel(@, jti)]]
        ELSE [ok |-> TRUE,
              r |-> [r EXCEPT !.revoked = RedisSetEx(@, jti, "1", ttl, t),
                              !.refresh = RedisDel(@, jti)]]

\* revoke_refresh: [ok, r]
revoke_refresh(r, jti, t) ==
    LET ttl == ttl_of_refresh(r, jti, t)
    IN  IF ttl <= 0 THEN [ok |-> FALSE, r |-> r]
        ELSE [ok |-> TRUE,
              r |-> [r EXCEPT !.revoked = RedisSetEx(@, jti, "1", ttl, t),
                              !.refresh = RedisDel(@, jti)]]

smembers(r, user_id) == {p[2] : p \in {q \in r.user_sessions : q[1] = user_id}}

\* the loop with SREM only for the members that were revoked
RECURSIVE RevokeEach_keeps_stale(_, _, _, _, _)
RevokeEach_keeps_stale(r, user_id, jtiset, t, revoked) ==
    IF jtiset = {} THEN [count |-> revoked, r |-> r]
    ELSE LET jti == CHOOSE j \in jtiset : TRUE
             res == revoke_refresh(r, jti, t)
             r2 == IF res.ok
                   THEN [res.r EXCEPT !.user_sessions = @ \ {<<user_id, jti>>}]
                   ELSE res.r
         IN  RevokeEach_keeps_stale(r2, user_id, jtiset \ {jti}, t,
                                    IF res.ok THEN revoked + 1 ELSE revoked)

\* revoke_all_user_refresh: [count, r]; the loop over the members of the set
RECURSIVE RevokeEach(_, _, _, _, _)
RevokeEach(r, user_id, jtiset, t, revoked) ==
    IF jtiset = {} THEN [count |-> revoked, r |-> r]
    ELSE LET jti == CHOOSE j \in jtiset : TRUE
             res == revoke_refresh(r, jti, t)
             r2 == [res.r EXCEPT !.user_sessions = @ \ {<<user_id, jti>>}]
         IN  RevokeEach(r2, user_id, jtiset \ {jti}, t,
                        IF res.ok THEN revoked + 1 ELSE revoked)

revoke_all_user_refresh(r, user_id, t) ==
    LET jtiset == smembers(r, user_id)
    IN  IF jtiset = {} THEN [count |-> 0, r |-> r]
        ELSE RevokeEach(r, user_id, jtiset, t, 0)

store_access(r, jti, payload, expTick, t) ==
    LET ttl == _ttl_from_exp(expTick, t)
    IN  IF ttl > 0 THEN [r EXCEPT !.access = RedisSetEx(@, jti, payload, ttl, t)]
        ELSE r

\* store_refresh that also links the entry to the user's session set
store_refresh_registered(r, jti, payload, expTick, t) ==
    register_refresh(r, payload.sub, jti, payload, expTick, t)

store_refresh(r, jti, payload, expTick, t) ==
    LET ttl == _ttl_from_exp(expTick, t)
    IN  IF ttl > 0 THEN [r EXCEPT !.refresh = RedisSetEx(@, jti, payload, ttl, t)]
        ELSE r

\* get_access / get_refresh: whether a payload comes back
get_access(r, jti, t) == KeyLive(r.access, jti, t)

get_refresh(r, jti, t) == KeyLive(r.refresh, jti, t)

revoke(r, jti, expTick, t) ==
    LET ttl == _ttl_from_exp(expTick, t)
    IN  IF ttl > 0 THEN [r EXCEPT !.revoked = RedisSetEx(@, jti, "1", ttl, t)]
        ELSE r

is_revoked_never(r, jti, t) == FALSE

is_revoked(r, jti, t) == KeyLive(r.revoked, jti, t)

delete_access(r, jti) == [r EXCEPT !.access = RedisDel(@, jti)]

delete_refresh_skipped(r, jti) == r

delete_refresh(r, jti) == [r EXCEPT !.refresh = RedisDel(@, jti)]

\* issue_tokens_for_user: [r, access_token, refresh_token, expires_in, n] where
\* n is the number of identifiers drawn; NoToken and NoExpiresIn stand for None
NoExpiresIn == -1

NoToken == [sub |-> 0, type |-> "none", jti |-> 0, iss |-> "", aud |-> "",
            exp |-> 0, key |-> ""]

issue_tokens_for_user(r, user_id, access, refresh, jtiBase, t) ==
    LET jti_access == jtiBase + 1
        exp_access == t + AccessTtlSec * TicksPerSec
        access_token == IF access THEN make_access_token(user_id, jti_access, exp_access)
                        ELSE NoToken
        r1 == IF access THEN store_access(r, jti_access, [sub |-> user_id], exp_access, t)
              ELSE r
        n1 == IF access THEN 1 ELSE 0
        jti_refresh == jtiBase + n1 + 1
        exp_refresh == t + RefreshTtlSec * TicksPerSec
        refresh_token == IF refresh THEN make_refresh_token(user_id, jti_refresh, exp_refresh)
                         ELSE NoToken
        r2 == IF refresh THEN store_refresh(r1, jti_refresh, [sub |-> user_id], exp_refresh, t)
              ELSE r1
    IN  [r |-> r2, access_token |-> access_token, refresh_token |-> refresh_token,
         expires_in |-> IF access THEN AccessTtlSec ELSE NoExpiresIn,
         n |-> n1 + (IF refresh THEN 1 ELSE 0)]

----------------------------------------------------------------------------
(* Relational store, table "users" (src/data_base/models.py, crud.py) *)

\* path parameters {user_id}: the ids of the rows and one id of no row
UserIds == 1..(MaxUsers + 1)

get_user_by_email(db, email) == {u \in db : u.email = email}

\* the unique index uq_users_email_active_only: commit raises IntegrityError
EmailTaken(db, email) == \E u \in db : u.email = email

NewUser(db, email, password) ==
    [id |-> Cardinality(db) + 1, email |-> email,
     hashed_password |-> get_password_hash(password)]

\* get_current_user that also asks the cache for the access entry of the
\* token and for a revocation marker
get_current_user_checks_cache(token, db, t) ==
    IF /\ token.key = ACCESS_SECRET
       /\ token.aud = JWT_AUDIENCE
       /\ token.iss = JWT_ISSUER
       /\ token.exp >= NowSec(t) - LeewaySec
       /\ token.sub # 0
       /\ \E u \in db : u.id = token.sub
       /\ get_access(redis, token.jti, t)
       /\ ~is_revoked(redis, token.jti, t)
    THEN token.sub
    ELSE 0

\* get_current_user: the id of the authenticated user, 0 for the 401
get_current_user(token, db, t) ==
    IF /\ token.key = ACCESS_SECRET
       /\ token.aud = JWT_AUDIENCE
       /\ token.iss = JWT_ISSUER
       /\ token.exp >= NowSec(t) - LeewaySec
       /\ token.sub # 0
       /\ \E u \in db : u.id = token.sub
    THEN token.sub
    ELSE 0

\* check_authorization: TRUE when it raises the 403
check_authorization(user_id, current_user_id) == user_id # current_user_id

----------------------------------------------------------------------------
(* What a client can send *)

\* the claims of a token of the system, signed again for the audience that
\* decode_token asks for by a holder of the same secret
Resigned(m) == [m EXCEPT !.aud = DecodeAudience]

\* request bodies {refresh}: a token of the system or its re-signed claims
Presentable ==
    LET issued == {m \in minted : m.type = "refresh"}
    IN  issued \cup {Resigned(m) : m \in issued}

\* Authorization headers: a token of the system, or none
Bearers == {m \in minted : m.type = "access"} \cup {NoToken}

\* the password a registration is made with
InitialPassword == "Passw0rd!"

Response(op, status, tok, caller, uid) ==
    [op |-> op, status |-> status, tok |-> tok, caller |-> caller, uid |-> uid]

----------------------------------------------------------------------------
(* Auth request handlers (src/user_auth/routers.py), one request at a time *)

AuthInit ==
    /\ now = 0
    /\ users = {}
    /\ redis = EmptyRedis
    /\ nextJti = 0
    /\ minted = {}
    /\ rotated = {}
    /\ closed = {}
    /\ pwRevoked = {}
    /\ last = Response("init", 0, NoToken, 0, 0)

Tick ==
    /\ now < MaxTime
    /\ now' = now + 1
    /\ redis' = RedisExpire(redis, now + 1)
    /\ last' = Response("tick", 0, NoToken, 0, 0)
    /\ UNCHANGED <<users, nextJti, minted, rotated, closed, pwRevoked,
                   regVars, ingestVars, infraVars>>

api_register(email, password) ==
    /\ Cardinality(users) < MaxUsers \/ get_user_by_email(users, email) # {}
    /\ IF get_user_by_email(users, email) # {}
       THEN /\ last' = Response("register", 409, NoToken, 0, 0)
            /\ UNCHANGED users
       ELSE /\ users' = users \cup {NewUser(users, email, password)}
            /\ last' = Response("register", 201, NoToken, 0, 0)
    /\ UNCHANGED <<now, redis, nextJti, minted, rotated, closed, pwRevoked,
                   regVars, ingestVars, infraVars>>

login_detail_by_cause(op, user_found) ==
    IF user_found THEN "Wrong password" ELSE "Unknown email"

\* the detail of the 401 of api_login and of issue_token (its Ukrainian text
\* is given in English): one raise serves "not user" and "not verify_password"
login_detail(op, user_found) ==
    IF op = "login" THEN "Wrong password or email" ELSE "Invalid email or password"

\* what the client of a login sees; the email is the one of the request
LoginResponse(op, status, tok, caller, email, detail) ==
    [op |-> op, status |-> status, tok |-> tok, caller |-> caller, uid |-> 0,
     email |-> email, detail |-> detail]

\* api_login (access and refresh) and issue_token (access only)
LoginWith(op, email, password, wantRefresh, budget) ==
    LET found == get_user_by_email(users, email)
        user == CHOOSE u \in found : TRUE
    IN  IF found = {} \/ ~verify_password(password, user.hashed_password)
        THEN /\ last' = LoginResponse(op, 401, NoToken, 0, email,
                                       login_detail(op, found # {}))
             /\ UNCHANGED <<redis, nextJti, minted>>
        ELSE LET tokens == issue_tokens_for_user(redis, user.id, TRUE, wantRefresh,
                                                 nextJti, now)
             IN  /\ nextJti + tokens.n <= budget
                 /\ redis' = tokens.r
                 /\ nextJti' = nextJti + tokens.n
                 /\ minted' = minted \cup
                        ({tokens.access_token, tokens.refresh_token} \ {NoToken})
                 /\ last' = LoginResponse(op, 200, tokens.refresh_token, user.id,
                                           email, "")

Login(email, password, budget) ==
    /\ LoginWith("login", email, password, TRUE, budget)
    /\ UNCHANGED <<now, users, rotated, closed, pwRevoked, regVars, ingestVars, infraVars>>

api_login(email, password) == Login(email, password, MaxJti)

issue_token(email, password) ==
    /\ LoginWith("token", email, password, FALSE, MaxRotateJti)
    /\ UNCHANGED <<now, users, rotated, closed, pwRevoked, regVars, ingestVars, infraVars>>

\* api_refresh that clears the refresh entry of a jti it finds revoked
Refresh_clears_revoked(token, budget) ==
    LET decoded == decode_token(token, "refresh", now)
        jti == token.jti
        sub == token.sub
        exp == token.exp * TicksPerSec
    IN  /\ IF decoded # 200
           THEN /\ last' = Response("refresh", decoded, token, 0, 0)
                /\ UNCHANGED <<redis, nextJti, minted, rotated>>
           ELSE IF is_revoked(redis, jti, now)
           THEN /\ last' = Response("refresh", 401, token, 0, 0)
                /\ redis' = delete_refresh(redis, jti)
                /\ UNCHANGED <<nextJti, minted, rotated>>
           ELSE IF ~get_refresh(redis, jti, now)
           THEN /\ last' = Response("refresh", 401, token, 0, 0)
                /\ UNCHANGED <<redis, nextJti, minted, rotated>>
           ELSE LET new_tokens == issue_tokens_for_user(redis, sub, TRUE, TRUE,
                                                        nextJti, now)
                IN  /\ nextJti + new_tokens.n <= budget
                    /\ redis' = revoke(new_tokens.r, jti, exp, now)
                    /\ nextJti' = nextJti + new_tokens.n
                    /\ minted' = minted \cup
                           {new_tokens.access_token, new_tokens.refresh_token}
                    /\ rotated' = rotated \cup {token}
                    /\ last' = Response("refresh", 200, token, 0, 0)
        /\ UNCHANGED <<now, users, closed, pwRevoked, regVars, ingestVars, infraVars>>

refresh_subject_from_path(path_user_id, sub) == path_user_id

\* the user the new pair is issued for: int(sub) of the decoded token; the
\* handler has no parameter for the {user_id} of its path
refresh_subject(path_user_id, sub) == sub

\* POST /{user_id}/refresh with body {refresh: token}
RefreshPath(user_id, token, budget) ==
    LET decoded == decode_token(token, "refresh", now)
        jti == token.jti
        sub == token.sub
        exp == token.exp * TicksPerSec
    IN  /\ IF decoded # 200
           THEN /\ last' = Response("refresh", decoded, token, 0, user_id)
                /\ UNCHANGED <<redis, nextJti, minted, rotated>>
           ELSE IF is_revoked(redis, jti, now)
           THEN /\ last' = Response("refresh", 401, token, 0, user_id)
                /\ UNCHANGED <<redis, nextJti, minted, rotated>>
           ELSE IF ~get_refresh(redis, jti, now)
           THEN /\ last' = Response("refresh", 401, token, 0, user_id)
                /\ UNCHANGED <<redis, nextJti, minted, rotated>>
           ELSE LET new_tokens == issue_tokens_for_user(redis,
                                      refresh_subject(user_id, sub), TRUE, TRUE,
                                      nextJti, now)
                IN  /\ nextJti + new_tokens.n <= budget
                    /\ redis' = revoke(new_tokens.r, jti, exp, now)
                    /\ nextJti' = nextJti + new_tokens.n
                    /\ minted' = minted \cup
                           {new_tokens.access_token, new_tokens.refresh_token}
                    /\ rotated' = rotated \cup {token}
                    /\ last' = Response("refresh", 200, token, 0, user_id)
        /\ UNCHANGED <<now, users, closed, pwRevoked, regVars, ingestVars, infraVars>>

\* the request with the path left out of the record
Refresh(token, budget) == RefreshPath(0, token, budget)

api_refresh(token) == Refresh(token, MaxJti)

api_logout(user_id, bearer, token) ==
    LET current_user == get_current_user(bearer, users, now)
        decoded == decode_token(token, "refresh", now)
        jti == token.jti
        exp == token.exp * TicksPerSec
        \* a request refused before its body is looked at records no token
        refuse(status) ==
            /\ last' = Response("logout", status, NoToken, current_user, user_id)
            /\ UNCHANGED <<redis, closed>>
        reject(status) ==
            /\ last' = Response("logout", status, token, current_user, user_id)
            /\ UNCHANGED <<redis, closed>>
    IN  /\ IF current_user = 0 THEN refuse(401)
           ELSE IF check_authorization(user_id, current_user) THEN refuse(403)
           ELSE IF decoded # 200 THEN reject(decoded)
           ELSE IF token.sub = 0 \/ jti = 0 \/ exp = 0 THEN reject(400)
           ELSE IF is_revoked(redis, jti, now) THEN reject(409)
           ELSE IF ~get_refresh(redis, jti, now) THEN reject(409)
           ELSE /\ redis' = delete_refresh(revoke(redis, jti, exp, now), jti)
                /\ closed' = closed \cup {token}
                /\ last' = Response("logout", 204, token, current_user, user_id)
        /\ UNCHANGED <<now, users, nextJti, minted, rotated, pwRevoked,
                       regVars, ingestVars, infraVars>>

\* the refresh entries of the cache that carry this user as their payload
SessionsOf(r, user_id, t) ==
    {j \in DOMAIN r.refresh : KeyLive(r.refresh, j, t) /\ r.refresh[j].val.sub = user_id}

\* what db.commit() can do: succeed, or raise the error the handler catches,
\* or raise another error of the store
CommitOutcomes == {"ok", "IntegrityError", "OperationalError"}

commit_writes_on_error(db, pending, outcome) ==
    [raised |-> outcome # "ok", db |-> pending]

\* AsyncSession.commit: the pending rows are written, or the call raises and
\* the rows of the store stay as they were
commit(db, pending, outcome) ==
    [raised |-> outcome # "ok", db |-> IF outcome = "ok" THEN pending ELSE db]

\* the text a driver puts into the error it raises
InternalErrorText == "psycopg: connection reset"

\* the body of a 500: the detail of the HTTPException of the handler, or the
\* body the server writes for an exception nobody caught
detail_of_500(outcome) ==
    IF outcome = "IntegrityError"
    THEN "Could not change password due to a database error."
    ELSE "Internal Server Error"

\* who rolls the session back after a commit that raised: the handler in
\* its except clause, or get_session when the exception leaves its
\* "async with"
rollback_by(outcome) ==
    IF outcome = "IntegrityError" THEN "handler" ELSE "get_session"

ChangePassword(user_id, bearer, current_password, new_password, outcome) ==
    LET current_user == get_current_user(bearer, users, now)
        user == CHOOSE u \in users : u.id = current_user
        respond(status, detail, committed, rollback) ==
            last' = [op |-> "change_password", status |-> status, tok |-> NoToken,
                     caller |-> current_user, uid |-> user_id,
                     current_password |-> current_password,
                     new_password |-> new_password,
                     detail |-> detail, commit |-> committed,
                     rollback |-> rollback]
        reject(status) ==
            /\ respond(status, "", "none", "none")
            /\ UNCHANGED <<users, redis, pwRevoked>>
    IN  /\ IF current_user = 0 THEN reject(401)
           ELSE IF new_password = current_password THEN reject(422)
           ELSE IF check_authorization(user_id, current_user) THEN reject(403)
           ELSE IF ~verify_password(current_password, user.hashed_password)
           THEN reject(401)
           ELSE IF current_password = new_password THEN reject(400)
           ELSE LET pending == (users \ {user}) \cup
                       {[user EXCEPT !.hashed_password = get_password_hash(new_password)]}
                    done == commit(users, pending, outcome)
                IN  IF done.raised
                    THEN /\ users' = done.db
                         /\ respond(500, detail_of_500(outcome), outcome,
                                    rollback_by(outcome))
                         /\ UNCHANGED <<redis, pwRevoked>>
                    ELSE /\ users' = done.db
                         /\ redis' = revoke_all_user_refresh(redis, current_user, now).r
                         /\ pwRevoked' = pwRevoked \cup
                                {j \in SessionsOf(redis, current_user, now) :
                                    ~is_revoked(redis, j, now)}
                         /\ respond(204, "", outcome, "none")
        /\ UNCHANGED <<now, nextJti, minted, rotated, closed, regVars, ingestVars, infraVars>>

\* a request whose commit succeeds
api_change_password(user_id, bearer, current_password, new_password) ==
    ChangePassword(user_id, bearer, current_password, new_password, "ok")

RegInit == reg = <<>> /\ inflight = <<>>

NoResponse ==
    [kind |-> "", batch |-> <<>>, status |-> 0, inserted |-> {},
     duplicates |-> {}, repeat |-> FALSE]

\* import_csv has not been called
NoImport ==
    [phase |-> "idle", file |-> <<>>, batch_size |-> 0, read |-> 0, parsed |-> 0,
     inserted |-> 0, duplicates |-> 0, batch |-> <<>>, calls |-> <<>>,
     disposed |-> FALSE, raised |-> ""]

IngestInit == store = {} /\ jobs = <<>> /\ ingested = NoResponse /\ imp = NoImport

\* Resources.__init__: no client yet (None is 0), not started
NoHandle == 0

NoResources ==
    [redis |-> NoHandle, http |-> NoHandle, metrics_service |-> NoHandle,
     metrics_task |-> NoHandle, _started |-> FALSE, made |-> 0, closed |-> {},
     disposed |-> 0, call |-> [op |-> "", effective |-> FALSE, raised |-> FALSE],
     lastEffective |-> ""]

InfraInit == resources = NoResources

Init == AuthInit /\ RegInit /\ IngestInit /\ InfraInit

Next ==
    \/ Tick
    \/ \E email \in Emails : api_register(email, InitialPassword)
    \/ \E email \in Emails, password \in Passwords : api_login(email, password)
    \/ \E token \in Presentable : api_refresh(token)
    \/ \E user_id \in UserIds, bearer \in Bearers, token \in Presentable :
          api_logout(user_id, bearer, token)
    \/ \E user_id \in UserIds, bearer \in Bearers, cur \in Passwords, new \in Passwords :
          api_change_password(user_id, bearer, cur, new)

Spec == Init /\ [][Next]_vars

\* login and refresh alone, with identifiers for one more issuance
NextRotate ==
    \/ Tick
    \/ \E email \in Emails : api_register(email, InitialPassword)
    \/ \E email \in Emails, password \in Passwords : Login(email, password, MaxRotateJti)
    \/ \E email \in Emails, password \in Passwords : issue_token(email, password)
    \/ \E token \in Presentable : Refresh(token, MaxRotateJti)

SpecRotate == Init /\ [][NextRotate]_vars

\* registration, login and change-password, the commit of which may fail
NextCommit ==
    \/ Tick
    \/ \E email \in Emails : api_register(email, InitialPassword)
    \/ \E email \in Emails, password \in Passwords : api_login(email, password)
    \/ \E user_id \in UserIds, bearer \in Bearers, cur \in Passwords,
          new \in Passwords, outcome \in CommitOutcomes :
          ChangePassword(user_id, bearer, cur, new, outcome)

SpecCommit == Init /\ [][NextCommit]_vars

----------------------------------------------------------------------------
(* Registration under concurrency (api_register, create_user): a request   *)
(* is suspended at each await, between the existence check and the commit. *)

create_user_unconstrained(db, data) ==
    [raised |-> "", db |-> db \cup {NewUser(db, data.email, data.password)}]

\* create_user: db.add and commit; the unique index on email makes the
\* commit raise IntegrityError, which is rolled back and raised again
create_user(db, data) ==
    IF EmailTaken(db, data.email)
    THEN [raised |-> "IntegrityError", db |-> db]
    ELSE [raised |-> "", db |-> db \cup {NewUser(db, data.email, data.password)}]

\* a client posts /auth/register
RegStart(email, password) ==
    /\ Len(reg) < MaxRegs
    /\ reg' = Append(reg, [pc |-> "check", email |-> email, password |-> password,
                           status |-> 0, passed |-> FALSE])
    /\ UNCHANGED <<authVars, infraVars, ingestVars, inflight>>

\* if await get_user_by_email(...): raise 409
RegCheck(i) ==
    /\ reg[i].pc = "check"
    /\ IF get_user_by_email(users, reg[i].email) # {}
       THEN reg' = [reg EXCEPT ![i].pc = "done", ![i].status = 409]
       ELSE reg' = [reg EXCEPT ![i].pc = "commit", ![i].passed = TRUE]
    /\ UNCHANGED <<authVars, infraVars, ingestVars, inflight>>

\* user = await create_user(...), except IntegrityError: raise 409
RegCommit(i) ==
    /\ reg[i].pc = "commit"
    /\ LET res == create_user(users, reg[i])
       IN  /\ users' = res.db
           /\ reg' = [reg EXCEPT ![i].pc = "done",
                                 ![i].status = IF res.raised = "IntegrityError"
                                               THEN 409
                                               ELSE IF res.raised = "" THEN 201 ELSE 500]
    /\ UNCHANGED <<now, redis, nextJti, minted, rotated, closed, pwRevoked, last,
                   ingestVars, inflight, infraVars>>

NextReg ==
    \/ \E email \in Emails, password \in Passwords : RegStart(email, password)
    \/ \E i \in DOMAIN reg : RegCheck(i)
    \/ \E i \in DOMAIN reg : RegCommit(i)

SpecReg == Init /\ [][NextReg]_vars

----------------------------------------------------------------------------
(* Event ingestion (add_unique_events, insert_batch). A stored row carries *)
(* the transaction that wrote it, so two rows of one event id are two rows. *)

EventIds == {"A", "B", "C"}

Events == [event_id : EventIds, user_id : 1..MaxEventUser]

IdsOf(batch) == {batch[i].event_id : i \in DOMAIN batch}

DistinctIds(batch) ==
    \A i, j \in DOMAIN batch : i # j => batch[i].event_id # batch[j].event_id

Batches ==
    {b \in UNION {[1..n -> Events] : n \in 0..MaxBatch} :
        Len(b) <= MaxDupBatch \/ DistinctIds(b)}

StoredIds(rows) == {r.event_id : r \in rows}

Row(e, txn) == [event_id |-> e.event_id, user_id |-> e.user_id, txn |-> txn]

\* the arbiter of ON CONFLICT (event_id): a visible row has the key
conflicts_never(rows, e) == FALSE

conflicts(rows, e) == \E r \in rows : r.event_id = e.event_id

\* INSERT ... VALUES payload ON CONFLICT (event_id) DO NOTHING RETURNING
\* event_id: the rows are taken in order, a row whose key is already there
\* (stored, or put by this statement) is skipped
RECURSIVE on_conflict_do_nothing(_, _, _, _)
on_conflict_do_nothing(rows, payload, txn, returning) ==
    IF payload = <<>>
    THEN [rows |-> rows, returning |-> returning]
    ELSE IF conflicts(rows, Head(payload))
         THEN on_conflict_do_nothing(rows, Tail(payload), txn, returning)
         ELSE on_conflict_do_nothing(rows \cup {Row(Head(payload), txn)},
                                     Tail(payload), txn,
                                     returning \cup {Head(payload).event_id})

\* ForeignKey("users.id") on Events.user_id, checked for the rows written
ForeignKeyOk(db, rows) == \A r \in rows : \E u \in db : u.id = r.user_id

\* db.execute(stmt): the statement either writes all its rows or raises
execute(rows, db, payload, txn) ==
    LET res == on_conflict_do_nothing(rows, payload, txn, {})
    IN  IF ForeignKeyOk(db, res.rows \ rows)
        THEN [raised |-> "", rows |-> res.rows, returning |-> res.returning]
        ELSE [raised |-> "IntegrityError", rows |-> rows, returning |-> {}]

all_input_ids(input_ids, inserted_ids) == input_ids

\* duplicates_ids = input_ids - inserted_ids
duplicates_ids(input_ids, inserted_ids) == input_ids \ inserted_ids

\* POST /events/ served with no other request in flight
no_events_never(events) == FALSE

\* if not events
no_events(events) == events = <<>>

\* executed, committed and recorded count the calls of db.execute, of
\* db.commit and of record_event that the request made
add_unique_events(events) ==
    /\ LET input_ids == IdsOf(events)
           res == execute(store, users, events, 0)
           repeat == /\ ingested.kind = "http"
                     /\ ingested.batch = events
                     /\ events # <<>>
       IN  IF no_events(events)
           THEN /\ store' = store
                /\ ingested' = [kind |-> "http", batch |-> events, status |-> 201,
                                inserted |-> {}, duplicates |-> {}, repeat |-> repeat,
                                executed |-> 0, committed |-> 0, recorded |-> 0]
           ELSE IF res.raised # ""
           THEN /\ store' = store
                /\ ingested' = [kind |-> "http", batch |-> events, status |-> 500,
                                inserted |-> {}, duplicates |-> {}, repeat |-> repeat,
                                executed |-> 1, committed |-> 0, recorded |-> 0]
           ELSE /\ store' = res.rows
                /\ ingested' = [kind |-> "http", batch |-> events, status |-> 201,
                                inserted |-> res.returning,
                                duplicates |-> duplicates_ids(input_ids, res.returning),
                                repeat |-> repeat,
                                executed |-> 1, committed |-> 1, recorded |-> 1]
    /\ UNCHANGED <<authVars, infraVars, regVars, jobs, imp>>

\* the database of a running deployment: two registered users
InitIngest ==
    /\ now = 0
    /\ users = {[id |-> 1, email |-> "a@x.io",
                 hashed_password |-> get_password_hash(InitialPassword)],
                [id |-> 2, email |-> "b@x.io",
                 hashed_password |-> get_password_hash(InitialPassword)]}
    /\ redis = EmptyRedis
    /\ nextJti = 0
    /\ minted = {}
    /\ rotated = {}
    /\ closed = {}
    /\ pwRevoked = {}
    /\ last = Response("init", 0, NoToken, 0, 0)
    /\ RegInit
    /\ IngestInit
    /\ InfraInit

NextIngest == \E events \in Batches : add_unique_events(events)

SpecIngest == InitIngest /\ [][NextIngest]_vars

\* the {user_id} a client may put into the path of a request: the two users
\* and an id nobody has
PathUserIds == 1..(MaxUsers + 2)

\* two registered users log in and refresh under any path
NextIdentity ==
    \/ Tick
    \/ \E email \in Emails : Login(email, InitialPassword, MaxRotateJti - 2)
    \/ \E user_id \in PathUserIds, token \in Presentable :
          RefreshPath(user_id, token, MaxRotateJti)

SpecIdentity == InitIngest /\ [][NextIdentity]_vars

\* two registered users log in, and each logs out with any refresh token
NextOwnSessions ==
    \/ Tick
    \/ \E email \in Emails : Login(email, InitialPassword, MaxJti)
    \/ \E user_id \in UserIds, bearer \in Bearers, token \in Presentable :
          api_logout(user_id, bearer, token)

SpecOwnSessions == InitIngest /\ [][NextOwnSessions]_vars

----------------------------------------------------------------------------
(* Concurrent ingestion: each job runs its INSERT in a transaction of its   *)
(* own and is suspended at every await. The statement takes its rows in     *)
(* order; a row written by a transaction in flight is invisible to the      *)
(* others until the commit, and its key makes them wait.                    *)

JobKinds == {"http", "cli"}

RaceBatches == {b \in Batches : Len(b) <= MaxRaceBatch /\ \A i \in DOMAIN b : b[i].user_id = 1}

\* rows written and not yet committed by the other transactions
HeldByOthers(i) == UNION {jobs[j].held : j \in DOMAIN jobs \ {i}}

waits_never(i, e) == FALSE

\* the unique index makes the insert of a key wait for the transaction in
\* flight that wrote that key
waits(i, e) == conflicts(HeldByOthers(i), e)

\* the jobs whose statement stands at a row that waits for a key held by job i
WaitingFor(i) ==
    {j \in DOMAIN jobs \ {i} :
        /\ jobs[j].pc = "execute"
        /\ conflicts(jobs[i].held, jobs[j].batch[jobs[j].pos])}

\* add_unique_events / insert_batch is called; "if not events" returns at once
JobStart(kind, batch) ==
    /\ Len(jobs) < MaxJobs
    /\ jobs' = Append(jobs, [kind |-> kind, batch |-> batch,
                             pc |-> IF batch = <<>> THEN "done" ELSE "execute",
                             pos |-> 1, held |-> {}, returning |-> {},
                             raised |-> "", inserted |-> {}, released |-> FALSE])
    /\ UNCHANGED <<authVars, infraVars, regVars, store, ingested, imp>>

\* await execute(stmt): the next row of VALUES; after the last one the
\* foreign key of the rows written is checked
JobInsertRow(i) ==
    /\ jobs[i].pc = "execute"
    /\ LET job == jobs[i]
           e == job.batch[job.pos]
           skip == conflicts(store \cup job.held, e)
           held == IF skip THEN job.held ELSE job.held \cup {Row(e, i)}
           returning == IF skip THEN job.returning
                                ELSE job.returning \cup {e.event_id}
       IN  /\ skip \/ ~waits(i, e)
           /\ IF job.pos < Len(job.batch)
              THEN jobs' = [jobs EXCEPT ![i].pos = job.pos + 1, ![i].held = held,
                                        ![i].returning = returning]
              ELSE IF ForeignKeyOk(users, held)
              THEN jobs' = [jobs EXCEPT ![i].pc = "commit", ![i].held = held,
                                        ![i].returning = returning]
              ELSE jobs' = [jobs EXCEPT ![i].pc = "done", ![i].held = {},
                                        ![i].returning = {},
                                        ![i].raised = "IntegrityError"]
    /\ UNCHANGED <<authVars, infraVars, regVars, store, ingested, imp>>

\* await db.commit() / leaving "async with engine.begin()"; the ids of
\* RETURNING are what the job reports as inserted
JobCommit(i) ==
    /\ jobs[i].pc = "commit"
    /\ store' = store \cup jobs[i].held
    /\ jobs' = [jobs EXCEPT ![i].pc = "done", ![i].held = {},
                            ![i].inserted = jobs[i].returning,
                            ![i].released = (WaitingFor(i) # {})]
    /\ UNCHANGED <<authVars, infraVars, regVars, ingested, imp>>

\* the transaction fails (deadlock victim, lost connection): the exception
\* leaves the handler and the session rolls back
JobAbort(i) ==
    /\ jobs[i].pc \in {"execute", "commit"}
    /\ jobs' = [jobs EXCEPT ![i].pc = "done", ![i].held = {}, ![i].returning = {},
                            ![i].raised = "DBAPIError"]
    /\ UNCHANGED <<authVars, infraVars, regVars, store, ingested, imp>>

NextRace ==
    \/ \E kind \in JobKinds, batch \in RaceBatches : JobStart(kind, batch)
    \/ \E i \in DOMAIN jobs : JobInsertRow(i)
    \/ \E i \in DOMAIN jobs : JobCommit(i)
    \/ \E i \in DOMAIN jobs : JobAbort(i)

SpecRace == InitIngest /\ [][NextRace]_vars

----------------------------------------------------------------------------
(* CSV import (src/endpoint_events/cli_utils.py). A line of the file is    *)
(* the record of the columns the model follows; the import is suspended    *)
(* at every line read and at every insert_batch.                           *)

\* what a data line may hold: an empty event_id is one of the invalid rows
CsvLines == [event_id : {"A", "B", ""}, user_id : {1, MaxEventUser}]

CsvFiles == UNION {[1..n -> CsvLines] : n \in 0..MaxCsvRows}

\* parse_row returns None
NoRow == [event_id |-> "", user_id |-> 0]

parse_row_accepting(row) == [event_id |-> row.event_id, user_id |-> row.user_id]

\* parse_row: None for a row that fails a check, else the EventRow
parse_row(row) ==
    IF row.event_id = "" THEN NoRow
    ELSE [event_id |-> row.event_id, user_id |-> row.user_id]

\* insert_batch with every row committed on its own: the rows before the
\* one that fails stay
insert_batch_autocommit(rows, db, batch, txn) ==
    IF batch = <<>> THEN [raised |-> "", rows |-> rows, count |-> 0, begun |-> 0]
    ELSE LET res == on_conflict_do_nothing(rows, batch, txn, {})
         IN  IF ForeignKeyOk(db, res.rows \ rows)
             THEN [raised |-> "", rows |-> res.rows,
                   count |-> Cardinality(res.returning), begun |-> 1]
             ELSE [raised |-> "IntegrityError",
                   rows |-> rows \cup {r \in res.rows : ForeignKeyOk(db, {r})},
                   count |-> 0, begun |-> 1]

\* insert_batch: one INSERT inside "async with engine.begin()", which
\* commits on return and rolls back when the statement raises; begun counts
\* the calls of engine.begin()
insert_batch(rows, db, batch, txn) ==
    IF batch = <<>> THEN [raised |-> "", rows |-> rows, count |-> 0, begun |-> 0]
    ELSE LET res == execute(rows, db, batch, txn)
         IN  [raised |-> res.raised, rows |-> res.rows,
              count |-> Cardinality(res.returning), begun |-> 1]

batch_full_late(batch, batch_size) == Len(batch) > batch_size

\* if len(batch) >= batch_size
batch_full(batch, batch_size) == Len(batch) >= batch_size

\* the call of insert_batch from import_csv and what follows it: the
\* counters, batch.clear(), or the exception leaving through "finally"
ImportInsert(state, batch, final) ==
    LET res == insert_batch(store, users, batch, Len(state.calls) + 1)
        call == [batch |-> batch, raised |-> res.raised, count |-> res.count]
    IN  /\ store' = res.rows
        /\ imp' = IF res.raised # ""
                  THEN [state EXCEPT !.phase = "failed", !.raised = res.raised,
                                     !.batch = batch,
                                     !.calls = Append(@, call), !.disposed = TRUE]
                  ELSE [state EXCEPT !.inserted = @ + res.count,
                                     !.duplicates = @ + (Len(batch) - res.count),
                                     !.batch = IF final THEN batch ELSE <<>>,
                                     !.calls = Append(@, call),
                                     !.phase = IF final THEN "done" ELSE @,
                                     !.disposed = final]

\* import_csv(csv_path, batch_size) up to the header check
ImportStart(file, batch_size, header_ok) ==
    /\ imp.phase = "idle"
    /\ imp' = [NoImport EXCEPT !.phase = IF header_ok THEN "rows" ELSE "failed",
                               !.file = file, !.batch_size = batch_size,
                               !.raised = IF header_ok THEN "" ELSE "RuntimeError",
                               !.disposed = ~header_ok]
    /\ UNCHANGED <<authVars, infraVars, regVars, store, jobs, ingested>>

\* one turn of "async for row in file_reader"
ImportRow ==
    /\ imp.phase = "rows"
    /\ imp.read < Len(imp.file)
    /\ LET event_row == parse_row(imp.file[imp.read + 1])
           counted == [imp EXCEPT !.read = @ + 1]
           batch == Append(imp.batch, event_row)
           appended == [counted EXCEPT !.parsed = @ + 1, !.batch = batch]
       IN  IF event_row = NoRow
           THEN imp' = counted /\ store' = store
           ELSE IF batch_full(batch, imp.batch_size)
           THEN ImportInsert(appended, batch, FALSE)
           ELSE imp' = appended /\ store' = store
    /\ UNCHANGED <<authVars, infraVars, regVars, jobs, ingested>>

\* after the loop: the last batch, "finally: await engine.dispose()"
ImportFinish ==
    /\ imp.phase = "rows"
    /\ imp.read = Len(imp.file)
    /\ IF imp.batch # <<>>
       THEN ImportInsert(imp, imp.batch, TRUE)
       ELSE /\ imp' = [imp EXCEPT !.phase = "done", !.disposed = TRUE]
            /\ store' = store
    /\ UNCHANGED <<authVars, infraVars, regVars, jobs, ingested>>

\* the files an import can be started on: none while one is running
StartableFiles == IF imp.phase = "idle" THEN CsvFiles ELSE {}

NextImport ==
    \/ \E file \in StartableFiles, batch_size \in 1..MaxBatchSize, header_ok \in BOOLEAN :
          ImportStart(file, batch_size, header_ok)
    \/ ImportRow
    \/ ImportFinish

SpecImport == InitIngest /\ [][NextImport]_vars

\* insert_batch(engine, table, batch) called on its own, as the command
\* line tool's tests call it
InsertBatchCall(batch) ==
    /\ LET res == insert_batch(store, users, batch, 0)
       IN  /\ store' = res.rows
           /\ ingested' = [kind |-> "insert_batch", batch |-> batch, status |-> 0,
                           inserted |-> {}, duplicates |-> {}, repeat |-> FALSE,
                           raised |-> res.raised, count |-> res.count,
                           begun |-> res.begun]
    /\ UNCHANGED <<authVars, infraVars, regVars, jobs, imp>>

\* the empty list and the lists of one event
ShortBatches == {events \in Batches : Len(events) <= 1}

NextEmpty ==
    \/ \E events \in ShortBatches : add_unique_events(events)
    \/ \E batch \in ShortBatches : InsertBatchCall(batch)

SpecEmpty == InitIngest /\ [][NextEmpty]_vars

----------------------------------------------------------------------------
(* Refresh under concurrency (api_refresh): a request is suspended at each *)
(* await of the handler, one Redis command being served at a time.         *)

\* POST /auth/{user_id}/refresh arrives; decode_token runs before any await
RefreshStart(token) ==
    /\ Len(inflight) < MaxRefreshes
    /\ LET decoded == decode_token(token, "refresh", now)
       IN  inflight' = Append(inflight,
               [token |-> token, passed |-> FALSE,
                pc |-> IF decoded = 200 THEN "is_revoked" ELSE "done",
                status |-> IF decoded = 200 THEN 0 ELSE decoded])
    /\ UNCHANGED <<authVars, infraVars, reg, ingestVars>>

\* if await cache.is_revoked(jti): raise 401
RefreshIsRevoked(i) ==
    /\ inflight[i].pc = "is_revoked"
    /\ IF is_revoked(redis, inflight[i].token.jti, now)
       THEN inflight' = [inflight EXCEPT ![i].pc = "done", ![i].status = 401]
       ELSE inflight' = [inflight EXCEPT ![i].pc = "get_refresh"]
    /\ UNCHANGED <<authVars, infraVars, reg, ingestVars>>

\* if not await cache.get_refresh(jti): raise 401
RefreshGetRefresh(i) ==
    /\ inflight[i].pc = "get_refresh"
    /\ IF ~get_refresh(redis, inflight[i].token.jti, now)
       THEN inflight' = [inflight EXCEPT ![i].pc = "done", ![i].status = 401]
       ELSE inflight' = [inflight EXCEPT ![i].pc = "issue", ![i].passed = TRUE]
    /\ UNCHANGED <<authVars, infraVars, reg, ingestVars>>

\* new_tokens = await issue_tokens_for_user(int(sub), access=True, refresh=True)
RefreshIssue(i) ==
    /\ inflight[i].pc = "issue"
    /\ LET new_tokens == issue_tokens_for_user(redis, inflight[i].token.sub, TRUE, TRUE,
                                               nextJti, now)
       IN  /\ nextJti + new_tokens.n <= MaxRotateJti
           /\ redis' = new_tokens.r
           /\ nextJti' = nextJti + new_tokens.n
           /\ minted' = minted \cup {new_tokens.access_token, new_tokens.refresh_token}
    /\ inflight' = [inflight EXCEPT ![i].pc = "revoke"]
    /\ UNCHANGED <<now, users, rotated, closed, pwRevoked, last, reg,
                   ingestVars, infraVars>>

\* await cache.revoke(jti, exp); return TokenPair
RefreshRevoke(i) ==
    /\ inflight[i].pc = "revoke"
    /\ redis' = revoke(redis, inflight[i].token.jti,
                       inflight[i].token.exp * TicksPerSec, now)
    /\ rotated' = rotated \cup {inflight[i].token}
    /\ inflight' = [inflight EXCEPT ![i].pc = "done", ![i].status = 200]
    /\ UNCHANGED <<now, users, nextJti, minted, closed, pwRevoked, last, reg,
                   ingestVars, infraVars>>

NextRefreshRace ==
    \/ Tick
    \/ \E email \in Emails : api_register(email, InitialPassword)
    \/ \E email \in Emails : Login(email, InitialPassword, MaxJti - 2)
    \/ \E token \in Presentable : RefreshStart(token)
    \/ \E i \in DOMAIN inflight : RefreshIsRevoked(i)
    \/ \E i \in DOMAIN inflight : RefreshGetRefresh(i)
    \/ \E i \in DOMAIN inflight : RefreshIssue(i)
    \/ \E i \in DOMAIN inflight : RefreshRevoke(i)

SpecRefreshRace == Init /\ [][NextRefreshRace]_vars

----------------------------------------------------------------------------
(* Logout with every kind of request body *)

\* request bodies {refresh} of a logout: a token of the system as issued,
\* its claims signed again for the audience of decode_token, that with a
\* forged signature, with the type "access", with an empty sub, without jti
LogoutBodies ==
    minted \cup
    UNION {{Resigned(m),
            [Resigned(m) EXCEPT !.key = "forged"],
            [Resigned(m) EXCEPT !.type = "access"],
            [Resigned(m) EXCEPT !.sub = 0],
            [Resigned(m) EXCEPT !.jti = Absent]} : m \in {x \in minted : x.type = "refresh"}}

NextLogout ==
    \/ Tick
    \/ \E email \in Emails : api_register(email, InitialPassword)
    \/ \E email \in Emails : api_login(email, InitialPassword)
    \/ \E token \in Presentable : api_refresh(token)
    \/ \E user_id \in UserIds, bearer \in Bearers, token \in LogoutBodies :
          api_logout(user_id, bearer, token)

SpecLogout == Init /\ [][NextLogout]_vars

----------------------------------------------------------------------------
(* The token codec on its own: a token is made, time passes, the token is  *)
(* decoded, in a deployment whose two secrets differ or are the same.      *)

SettingsChoices ==
    {Settings, [ACCESS_SECRET |-> ACCESS_SECRET, REFRESH_SECRET |-> ACCESS_SECRET]}

CodecCall(op, status, tok, settings, expected_type) ==
    [op |-> op, status |-> status, tok |-> tok, caller |-> 0, uid |-> 0,
     settings |-> settings, expected_type |-> expected_type]

InitCodec ==
    /\ now = 0
    /\ users = {}
    /\ redis = EmptyRedis
    /\ nextJti = 0
    /\ minted = {}
    /\ rotated = {}
    /\ closed = {}
    /\ pwRevoked = {}
    /\ \E settings \in SettingsChoices :
          last = CodecCall("settings", 0, NoToken, settings, "")
    /\ RegInit
    /\ IngestInit
    /\ InfraInit

\* make_access_token(sub, jti, ttl) / make_refresh_token(sub, jti, ttl)
CodecMake(token_type, sub, ttlSec) ==
    /\ nextJti < MaxCodecTokens
    /\ LET jti == nextJti + 1
           expTick == now + ttlSec * TicksPerSec
           token == IF token_type = "access"
                    THEN make_access_token_under(last.settings, sub, jti, expTick)
                    ELSE make_refresh_token_under(last.settings, sub, jti, expTick)
       IN  /\ minted' = minted \cup {token}
           /\ last' = CodecCall("make", 200, token, last.settings, "")
    /\ nextJti' = nextJti + 1
    /\ UNCHANGED <<now, users, redis, rotated, closed, pwRevoked, regVars, ingestVars, infraVars>>

\* time passes between the calls
CodecTick ==
    /\ now < MaxTime
    /\ now' = now + 1
    /\ UNCHANGED <<users, redis, nextJti, minted, rotated, closed, pwRevoked, last,
                   regVars, ingestVars, infraVars>>

\* decode_token(token, expected_type=...)
CodecDecode(token, expected_type) ==
    /\ last' = CodecCall("decode",
                         decode_token_under(last.settings, token, expected_type, now),
                         token, last.settings, expected_type)
    /\ UNCHANGED <<now, users, redis, nextJti, minted, rotated, closed, pwRevoked,
                   regVars, ingestVars, infraVars>>

NextCodec ==
    \/ \E token_type \in {"access", "refresh"}, sub \in UserIds,
          ttlSec \in {AccessTtlSec, RefreshTtlSec} : CodecMake(token_type, sub, ttlSec)
    \/ CodecTick
    \/ \E token \in minted, expected_type \in {"access", "refresh"} :
          CodecDecode(token, expected_type)

SpecCodec == InitCodec /\ [][NextCodec]_vars

\* make_access_token(sub) / make_refresh_token(sub): jti and exp are left to
\* their defaults, jti=None and exp = now + minutes / days
CodecMakeDefault(token_type, sub) ==
    /\ nextJti < MaxCodecTokens
    /\ LET token == IF token_type = "access"
                    THEN make_access_token_under(last.settings, sub, Absent,
                                                 now + AccessTtlSec * TicksPerSec)
                    ELSE make_refresh_token_under(last.settings, sub, Absent,
                                                  now + RefreshTtlSec * TicksPerSec)
       IN  /\ minted' = minted \cup {token}
           /\ last' = CodecCall("make_default", 200, token, last.settings, "")
    /\ nextJti' = nextJti + 1
    /\ UNCHANGED <<now, users, redis, rotated, closed, pwRevoked,
                   regVars, ingestVars, infraVars>>

\* the codec with the defaults of its makers, and decode_token also given
\* tokens signed for the audience it asks for
NextCodecDefaults ==
    \/ \E token_type \in {"access", "refresh"}, sub \in UserIds :
          CodecMake(token_type, sub, IF token_type = "access" THEN AccessTtlSec
                                                              ELSE RefreshTtlSec)
    \/ \E token_type \in {"access", "refresh"}, sub \in UserIds :
          CodecMakeDefault(token_type, sub)
    \/ CodecTick
    \/ \E token \in minted \cup {Resigned(m) : m \in minted},
          expected_type \in {"access", "refresh"} : CodecDecode(token, expected_type)

SpecCodecDefaults == InitCodec /\ [][NextCodecDefaults]_vars

----------------------------------------------------------------------------
(* The token cache on its own: its methods are called in any order, with   *)
(* any arguments, as time passes.                                          *)

CacheCall(op, user_id, jti, result) ==
    [op |-> op, status |-> 0, tok |-> NoToken, caller |-> 0, uid |-> user_id,
     jti |-> jti, result |-> result]

\* the expiry instants a caller may pass: up to the refresh lifetime from now
ExpTicks == {now + d : d \in 0..(RefreshTtlSec * TicksPerSec)}

\* cache.register_refresh(user_id, jti, {"sub": user_id}, exp), fresh jti
CacheRegisterRefresh(user_id, expTick) ==
    /\ nextJti < MaxCacheJti
    /\ redis' = register_refresh(redis, user_id, nextJti + 1, [sub |-> user_id],
                                 expTick, now)
    /\ nextJti' = nextJti + 1
    /\ last' = CacheCall("register_refresh", user_id, nextJti + 1, 0)
    /\ UNCHANGED <<now, users, minted, rotated, closed, pwRevoked, regVars, ingestVars, infraVars>>

\* cache.revoke_refresh(jti)
CacheRevokeRefresh(jti) ==
    /\ LET res == revoke_refresh(redis, jti, now)
       IN  /\ redis' = res.r
           /\ last' = CacheCall("revoke_refresh", 0, jti, res.ok)
    /\ UNCHANGED <<now, users, nextJti, minted, rotated, closed, pwRevoked,
                   regVars, ingestVars, infraVars>>

\* cache.revoke_all_user_refresh(user_id)
CacheRevokeAll(user_id) ==
    /\ LET res == revoke_all_user_refresh(redis, user_id, now)
       IN  /\ redis' = res.r
           /\ last' = CacheCall("revoke_all_user_refresh", user_id, 0,
                                [count |-> res.count,
                                 seen |-> Cardinality(smembers(redis, user_id))])
    /\ UNCHANGED <<now, users, nextJti, minted, rotated, closed, pwRevoked,
                   regVars, ingestVars, infraVars>>

\* cache.delete_refresh(jti)
CacheDeleteRefresh(jti) ==
    /\ redis' = delete_refresh(redis, jti)
    /\ last' = CacheCall("delete_refresh", 0, jti, 0)
    /\ UNCHANGED <<now, users, nextJti, minted, rotated, closed, pwRevoked,
                   regVars, ingestVars, infraVars>>

\* issue_tokens_for_user(user_id, access=..., refresh=...)
CacheIssue(user_id, access, refresh) ==
    /\ LET tokens == issue_tokens_for_user(redis, user_id, access, refresh, nextJti, now)
       IN  /\ nextJti + tokens.n <= MaxCacheJti
           /\ redis' = tokens.r
           /\ nextJti' = nextJti + tokens.n
           /\ minted' = minted \cup ({tokens.access_token, tokens.refresh_token} \ {NoToken})
           /\ last' = CacheCall("issue_tokens_for_user", user_id, nextJti,
                                [access |-> access, refresh |-> refresh,
                                 access_token |-> tokens.access_token,
                                 refresh_token |-> tokens.refresh_token,
                                 expires_in |-> tokens.expires_in])
    /\ UNCHANGED <<now, users, rotated, closed, pwRevoked, regVars, ingestVars, infraVars>>

NextCache ==
    \/ Tick
    \/ \E user_id \in UserIds, expTick \in ExpTicks : CacheRegisterRefresh(user_id, expTick)
    \/ \E jti \in 1..MaxCacheJti : CacheRevokeRefresh(jti)
    \/ \E user_id \in UserIds : CacheRevokeAll(user_id)
    \/ \E jti \in 1..MaxCacheJti : CacheDeleteRefresh(jti)

SpecCache == Init /\ [][NextCache]_vars

\* issuance on its own, among refresh sessions registered before
NextIssue ==
    \/ Tick
    \/ \E user_id \in UserIds : CacheRegisterRefresh(user_id, now + RefreshTtlSec * TicksPerSec)
    \/ \E user_id \in UserIds, access \in BOOLEAN, refresh \in BOOLEAN :
          CacheIssue(user_id, access, refresh)

SpecIssue == Init /\ [][NextIssue]_vars

\* the writers of the cache called with a jti and an exp of the caller's
\* choice: past, now, half a second ahead, one second and more
ExpArgs == {now - 1, now, now + 1, now + TicksPerSec, now + TicksPerSec + 1}

\* cache.register_refresh(1, jti, {"sub": 1}, exp)
CacheRegisterRefreshAt(jti, expTick) ==
    /\ redis' = register_refresh(redis, 1, jti, [sub |-> 1], expTick, now)
    /\ last' = CacheCall("register_refresh", 1, jti, expTick)
    /\ UNCHANGED <<now, users, nextJti, minted, rotated, closed, pwRevoked,
                   regVars, ingestVars, infraVars>>

\* cache.store_access(jti, {"sub": 1}, exp)
CacheStoreAccess(jti, expTick) ==
    /\ redis' = store_access(redis, jti, [sub |-> 1], expTick, now)
    /\ last' = CacheCall("store_access", 1, jti, expTick)
    /\ UNCHANGED <<now, users, nextJti, minted, rotated, closed, pwRevoked,
                   regVars, ingestVars, infraVars>>

\* cache.store_refresh(jti, {"sub": 1}, exp)
CacheStoreRefresh(jti, expTick) ==
    /\ redis' = store_refresh(redis, jti, [sub |-> 1], expTick, now)
    /\ last' = CacheCall("store_refresh", 1, jti, expTick)
    /\ UNCHANGED <<now, users, nextJti, minted, rotated, closed, pwRevoked,
                   regVars, ingestVars, infraVars>>

\* cache.revoke(jti, exp)
CacheRevoke(jti, expTick) ==
    /\ redis' = revoke(redis, jti, expTick, now)
    /\ last' = CacheCall("revoke", 0, jti, expTick)
    /\ UNCHANGED <<now, users, nextJti, minted, rotated, closed, pwRevoked,
                   regVars, ingestVars, infraVars>>

\* cache.ttl_of_refresh(jti)
CacheTtlOfRefresh(jti) ==
    /\ last' = CacheCall("ttl_of_refresh", 0, jti, ttl_of_refresh(redis, jti, now))
    /\ UNCHANGED <<now, users, redis, nextJti, minted, rotated, closed, pwRevoked,
                   regVars, ingestVars, infraVars>>

NextExpiry ==
    \/ Tick
    \/ \E jti \in 1..MaxStoreJti, expTick \in ExpArgs : CacheRegisterRefreshAt(jti, expTick)
    \/ \E jti \in 1..MaxStoreJti, expTick \in ExpArgs : CacheStoreAccess(jti, expTick)
    \/ \E jti \in 1..MaxStoreJti, expTick \in ExpArgs : CacheStoreRefresh(jti, expTick)
    \/ \E jti \in 1..MaxStoreJti, expTick \in ExpArgs : CacheRevoke(jti, expTick)
    \/ \E jti \in 1..MaxStoreJti : CacheTtlOfRefresh(jti)
    \/ \E jti \in 1..MaxStoreJti : CacheRevokeRefresh(jti)

SpecExpiry == Init /\ [][NextExpiry]_vars

\* a call of one of the writers of the cache and the same call made again
\* at once, as a client that saw no answer does
MaxRetryJti == 1

RetryOps == {"register_refresh", "store_access", "store_refresh", "revoke",
             "revoke_refresh", "revoke_all_user_refresh", "delete_access",
             "delete_refresh"}

\* expiry arguments: now (nothing is written) and one second and more ahead
RetryExps == {now, now + TicksPerSec, now + RefreshTtlSec * TicksPerSec}

RetryCall(op, user_id, jti, expTick) ==
    [op |-> op, status |-> 0, tok |-> NoToken, caller |-> 0, uid |-> user_id,
     jti |-> jti, exp |-> expTick, retry |-> FALSE]

\* the cache after the call: the payload of an entry is {"sub": user_id}
CacheApply(r, op, user_id, jti, expTick, t) ==
    CASE op = "register_refresh" ->
            register_refresh(r, user_id, jti, [sub |-> user_id], expTick, t)
      [] op = "store_access" -> store_access(r, jti, [sub |-> user_id], expTick, t)
      [] op = "store_refresh" -> store_refresh(r, jti, [sub |-> user_id], expTick, t)
      [] op = "revoke" -> revoke(r, jti, expTick, t)
      [] op = "revoke_refresh" -> revoke_refresh(r, jti, t).r
      [] op = "revoke_all_user_refresh" -> revoke_all_user_refresh(r, user_id, t).r
      [] op = "delete_access" -> delete_access(r, jti)
      [] op = "delete_refresh" -> delete_refresh(r, jti)

CacheDo(op, user_id, jti, expTick) ==
    /\ redis' = CacheApply(redis, op, user_id, jti, expTick, now)
    /\ last' = RetryCall(op, user_id, jti, expTick)
    /\ UNCHANGED <<now, users, nextJti, minted, rotated, closed, pwRevoked,
                   regVars, ingestVars, infraVars>>

\* the call just made is made again with the same arguments, no time passing
\* (Tick leaves a record that is not a call)
CacheRetry ==
    /\ last.op \in RetryOps
    /\ redis' = CacheApply(redis, last.op, last.uid, last.jti, last.exp, now)
    /\ last' = [last EXCEPT !.retry = TRUE]
    /\ UNCHANGED <<now, users, nextJti, minted, rotated, closed, pwRevoked,
                   regVars, ingestVars, infraVars>>

NextRetry ==
    \/ Tick
    \/ \E user_id \in UserIds, jti \in 1..MaxRetryJti, expTick \in RetryExps :
          CacheDo("register_refresh", user_id, jti, expTick)
    \/ \E jti \in 1..MaxRetryJti, expTick \in RetryExps :
          CacheDo("store_access", 1, jti, expTick)
    \/ \E jti \in 1..MaxRetryJti, expTick \in RetryExps :
          CacheDo("store_refresh", 1, jti, expTick)
    \/ \E jti \in 1..MaxRetryJti, expTick \in RetryExps :
          CacheDo("revoke", 0, jti, expTick)
    \/ \E jti \in 1..MaxRetryJti :
          CacheDo("revoke_refresh", 0, jti, 0)
    \/ \E user_id \in UserIds :
          CacheDo("revoke_all_user_refresh", user_id, 0, 0)
    \/ \E jti \in 1..MaxRetryJti :
          CacheDo("delete_access", 0, jti, 0)
    \/ \E jti \in 1..MaxRetryJti :
          CacheDo("delete_refresh", 0, jti, 0)
    \/ CacheRetry

SpecRetry == Init /\ [][NextRetry]_vars

----------------------------------------------------------------------------
(* One request at a time whose cache commands are separate steps: between  *)
(* two awaits the request may be cancelled, or the command may raise, and  *)
(* what it wrote so far stays.  The request is the only entry of inflight. *)

MaxCancelJti == 4

\* register_refresh is called for the first identifiers only
MaxCancelRegs == 2

\* the user the requests are made for
CancelUsers == {1}

\* the request in flight: pc names the await it stands before, ttl is the
\* local of revoke_refresh, todo and cur are the loop of
\* revoke_all_user_refresh, began holds the jtis the request has begun to
\* revoke
CacheTask(op, user_id, jti, expTick, pc) ==
    [op |-> op, uid |-> user_id, jti |-> jti, exp |-> expTick, pc |-> pc,
     ttl |-> 0, todo |-> {}, began |-> {}]

Running == inflight # <<>> /\ inflight[1].pc \notin {"done", "cancelled"}

\* a request that returned is no longer in flight
Settle(tasks) == IF tasks[1].pc = "done" THEN <<>> ELSE tasks

At(pc) == inflight # <<>> /\ inflight[1].pc = pc

TaskFrame ==
    UNCHANGED <<now, users, nextJti, minted, rotated, closed, pwRevoked, last,
                reg, ingestVars, infraVars>>

\* cache.register_refresh(user_id, jti, {"sub": user_id}, exp), fresh jti:
\* ttl = self._ttl_from_exp(exp); if ttl <= 0: return
RegisterStart(user_id, expTick) ==
    /\ ~Running
    /\ nextJti < MaxCancelRegs
    /\ nextJti' = nextJti + 1
    /\ LET ttl == _ttl_from_exp(expTick, now)
       IN  inflight' = Settle(<<[CacheTask("register_refresh", user_id, nextJti + 1,
                                           expTick,
                                           IF ttl <= 0 THEN "done" ELSE "reg_set")
                                 EXCEPT !.ttl = ttl]>>)
    /\ UNCHANGED <<now, users, redis, minted, rotated, closed, pwRevoked, last,
                   reg, ingestVars, infraVars>>

\* await self.r.set(self._key_refresh(jti), json.dumps(payload), ex=ttl)
RegisterSet ==
    /\ At("reg_set")
    /\ LET task == inflight[1]
       IN  redis' = [redis EXCEPT !.refresh =
                        RedisSetEx(@, task.jti, [sub |-> task.uid], task.ttl, now)]
    /\ inflight' = [inflight EXCEPT ![1].pc = "reg_sadd"]
    /\ TaskFrame

\* await self.r.sadd(self._key_user_sessions(user_id), jti)
RegisterSadd ==
    /\ At("reg_sadd")
    /\ redis' = [redis EXCEPT !.user_sessions =
                    @ \cup {<<inflight[1].uid, inflight[1].jti>>}]
    /\ inflight' = <<>>
    /\ TaskFrame

\* cache.revoke_refresh(jti)
RevokeRefreshStart(jti) ==
    /\ ~Running
    /\ inflight' = <<CacheTask("revoke_refresh", 0, jti, 0, "rr_ttl")>>
    /\ UNCHANGED <<authVars, reg, ingestVars, infraVars>>

\* where revoke_refresh returns to: the loop of revoke_all_user_refresh
\* goes on with its SREM
AfterRevokeRefresh(task) ==
    IF task.op = "revoke_all_user_refresh" THEN "srem" ELSE "done"

\* ttl = await self.ttl_of_refresh(jti); if ttl <= 0: return False
RevokeRefreshTtl ==
    /\ At("rr_ttl")
    /\ LET task == inflight[1]
           ttl == ttl_of_refresh(redis, task.jti, now)
       IN  inflight' = Settle([inflight EXCEPT ![1].ttl = ttl,
                                  ![1].pc = IF ttl <= 0 THEN AfterRevokeRefresh(task)
                                            ELSE "rr_set"])
    /\ UNCHANGED <<authVars, reg, ingestVars, infraVars>>

\* await self.r.set(self._key_revoked(jti), "1", ex=ttl)
RevokeRefreshSet ==
    /\ At("rr_set")
    /\ LET task == inflight[1]
       IN  /\ redis' = [redis EXCEPT !.revoked =
                           RedisSetEx(@, task.jti, "1", task.ttl, now)]
           /\ inflight' = [inflight EXCEPT ![1].pc = "rr_del",
                                           ![1].began = @ \cup {task.jti}]
    /\ TaskFrame

\* await self.r.delete(self._key_refresh(jti)); return True
RevokeRefreshDel ==
    /\ At("rr_del")
    /\ redis' = delete_refresh(redis, inflight[1].jti)
    /\ inflight' = Settle([inflight EXCEPT ![1].pc = AfterRevokeRefresh(inflight[1])])
    /\ TaskFrame

\* cache.revoke_all_user_refresh(user_id)
RevokeAllStart(user_id) ==
    /\ ~Running
    /\ inflight' = <<CacheTask("revoke_all_user_refresh", user_id, 0, 0, "smembers")>>
    /\ UNCHANGED <<authVars, reg, ingestVars, infraVars>>

\* jtiset = await self.r.smembers(key_set); if not jtiset: return 0
\* and the first turn of "for jti in jtiset"
RevokeAllSmembers ==
    /\ At("smembers")
    /\ LET jtiset == smembers(redis, inflight[1].uid)
       IN  IF jtiset = {}
           THEN inflight' = <<>>
           ELSE \E jti \in jtiset :
                   inflight' = [inflight EXCEPT ![1].todo = jtiset \ {jti},
                                                ![1].jti = jti,
                                                ![1].pc = "rr_ttl"]
    /\ UNCHANGED <<authVars, reg, ingestVars, infraVars>>

\* await self.r.srem(key_set, jti), and the next turn of the loop
RevokeAllSrem ==
    /\ At("srem")
    /\ LET task == inflight[1]
       IN  /\ redis' = [redis EXCEPT !.user_sessions = @ \ {<<task.uid, task.jti>>}]
           /\ IF task.todo = {}
              THEN inflight' = <<>>
              ELSE \E jti \in task.todo :
                      inflight' = [inflight EXCEPT ![1].todo = @ \ {jti},
                                                   ![1].jti = jti,
                                                   ![1].pc = "rr_ttl"]
    /\ TaskFrame

\* the tokens a logout or a refresh gets as far as its cache writes with
Rotatable ==
    {m \in {Resigned(x) : x \in {y \in minted : y.type = "refresh"}} :
        /\ decode_token(m, "refresh", now) = 200
        /\ ~is_revoked(redis, m.jti, now)
        /\ get_refresh(redis, m.jti, now)}

\* api_logout up to its writes: decode and the checks of lines 131-150
LogoutStart(token) ==
    /\ ~Running
    /\ token \in Rotatable
    /\ inflight' = <<CacheTask("logout", token.sub, token.jti,
                               token.exp * TicksPerSec, "lo_revoke")>>
    /\ UNCHANGED <<authVars, reg, ingestVars, infraVars>>

\* await cache.revoke(jti, exp)
LogoutRevoke ==
    /\ At("lo_revoke")
    /\ LET task == inflight[1]
       IN  /\ redis' = revoke(redis, task.jti, task.exp, now)
           /\ inflight' = [inflight EXCEPT ![1].pc = "lo_delete",
                                           ![1].began = @ \cup {task.jti}]
    /\ TaskFrame

\* await cache.delete_refresh(jti)
LogoutDelete ==
    /\ At("lo_delete")
    /\ redis' = delete_refresh(redis, inflight[1].jti)
    /\ inflight' = <<>>
    /\ TaskFrame

\* api_refresh up to its writes: decode and the checks of lines 105-113
RefreshTaskStart(token) ==
    /\ ~Running
    /\ token \in Rotatable
    /\ inflight' = <<CacheTask("refresh", token.sub, token.jti,
                               token.exp * TicksPerSec, "rf_issue")>>
    /\ UNCHANGED <<authVars, reg, ingestVars, infraVars>>

\* new_tokens = await issue_tokens_for_user(int(sub), access=True, refresh=True)
RefreshTaskIssue ==
    /\ At("rf_issue")
    /\ LET new_tokens == issue_tokens_for_user(redis, inflight[1].uid, TRUE, TRUE,
                                               nextJti, now)
       IN  /\ nextJti + new_tokens.n <= MaxCancelJti
           /\ redis' = new_tokens.r
           /\ nextJti' = nextJti + new_tokens.n
           /\ minted' = minted \cup {new_tokens.access_token, new_tokens.refresh_token}
    /\ inflight' = [inflight EXCEPT ![1].pc = "rf_revoke"]
    /\ UNCHANGED <<now, users, rotated, closed, pwRevoked, last, reg,
                   ingestVars, infraVars>>

\* await cache.revoke(jti, exp)
RefreshTaskRevoke ==
    /\ At("rf_revoke")
    /\ LET task == inflight[1]
       IN  /\ redis' = revoke(redis, task.jti, task.exp, now)
           /\ inflight' = <<>>
    /\ TaskFrame

\* the request is cancelled, or the command it awaits raises: no line after
\* the await runs
Cancel ==
    /\ Running
    /\ inflight' = [inflight EXCEPT ![1].pc = "cancelled"]
    /\ UNCHANGED <<authVars, reg, ingestVars, infraVars>>

\* a login of the cache's side: issue_tokens_for_user(user_id, True, True)
CancelLogin(user_id) ==
    /\ ~Running
    /\ nextJti + 2 <= MaxCancelJti
    /\ LET tokens == issue_tokens_for_user(redis, user_id, TRUE, TRUE, nextJti, now)
       IN  /\ redis' = tokens.r
           /\ nextJti' = nextJti + tokens.n
           /\ minted' = minted \cup {tokens.access_token, tokens.refresh_token}
    /\ UNCHANGED <<now, users, rotated, closed, pwRevoked, last, regVars,
                   ingestVars, infraVars>>

\* time passes between two requests
CancelTick == ~Running /\ Tick

NextCancel ==
    \/ CancelTick
    \/ \E user_id \in CancelUsers : CancelLogin(user_id)
    \/ \E user_id \in CancelUsers :
          RegisterStart(user_id, now + RefreshTtlSec * TicksPerSec)
    \/ RegisterSet
    \/ RegisterSadd
    \/ \E jti \in 1..nextJti : RevokeRefreshStart(jti)
    \/ RevokeRefreshTtl
    \/ RevokeRefreshSet
    \/ RevokeRefreshDel
    \/ \E user_id \in CancelUsers : RevokeAllStart(user_id)
    \/ RevokeAllSmembers
    \/ RevokeAllSrem
    \/ \E token \in Rotatable : LogoutStart(token)
    \/ LogoutRevoke
    \/ LogoutDelete
    \/ \E token \in Rotatable : RefreshTaskStart(token)
    \/ RefreshTaskIssue
    \/ RefreshTaskRevoke
    \/ Cancel

SpecCancel == Init /\ [][NextCancel]_vars

----------------------------------------------------------------------------
(* The Resources singleton (src/infrastructure/resources.py). A handle is  *)
(* the number of the object created; start() may raise at either of its    *)
(* awaits.                                                                 *)

\* how a start() that runs may end: it returns, redis.ping() raises, or
\* start_metrics() raises
StartOutcomes == {"ok", "ping", "metrics"}

ResCall(op, effective, raised) == [op |-> op, effective |-> effective, raised |-> raised]

\* await resources.start()
ResStart(outcome) ==
    /\ resources._started \/ resources.made + 4 <= MaxHandles
    /\ LET h == resources.made
       IN  resources' =
             IF resources._started
             THEN [resources EXCEPT !.call = ResCall("start", FALSE, FALSE)]
             ELSE IF outcome = "ping"
             THEN [resources EXCEPT !.redis = h + 1, !.made = h + 1,
                                    !.call = ResCall("start", TRUE, TRUE),
                                    !.lastEffective = "start raised"]
             ELSE IF outcome = "metrics"
             THEN [resources EXCEPT !.redis = h + 1, !.http = h + 2, !.made = h + 2,
                                    !.call = ResCall("start", TRUE, TRUE),
                                    !.lastEffective = "start raised"]
             ELSE [resources EXCEPT !.redis = h + 1, !.http = h + 2,
                                    !.metrics_service = h + 3,
                                    !.metrics_task = h + 4, !.made = h + 4,
                                    !._started = TRUE,
                                    !.call = ResCall("start", TRUE, FALSE),
                                    !.lastEffective = "start"]
    /\ UNCHANGED <<authVars, regVars, ingestVars>>

\* await resources.stop()
ResStop ==
    /\ resources' =
          IF ~resources._started
          THEN [resources EXCEPT !.call = ResCall("stop", FALSE, FALSE)]
          ELSE [resources EXCEPT
                   !.closed = @ \cup ({resources.http, resources.redis,
                                       resources.metrics_service,
                                       resources.metrics_task} \ {NoHandle}),
                   !.redis = NoHandle,
                   !.disposed = @ + 1,
                   !._started = FALSE,
                   !.call = ResCall("stop", TRUE, FALSE),
                   !.lastEffective = "stop"]
    /\ UNCHANGED <<authVars, regVars, ingestVars>>

NextResources ==
    \/ \E outcome \in StartOutcomes : ResStart(outcome)
    \/ ResStop

SpecResources == Init /\ [][NextResources]_vars

----------------------------------------------------------------------------
(* The benchmark bypass (benchmark_token_middleware, benchmark_or_auth).   *)
(* A string is the sequence of its pieces; "Bearer " occurs in a header    *)
(* only as one of these pieces. "TOK" is the benchmark secret, "JWT" an    *)
(* access token of user 1.                                                 *)

HeaderParts == {"Bearer ", "Basic ", "TOK", "JWT"}

\* request.headers.get("Authorization"): <<>> when the header is absent
AuthHeaders == UNION {[1..n -> HeaderParts] : n \in 0..MaxHeaderParts}

\* request.url.path, as the sequence of its pieces
Paths == {<<"/stats", "/dau">>, <<"/stats", "x">>, <<"/events", "/">>, <<"/health">>}

\* get_settings().BENCHMARK_TOKEN: unset, or the secret
BenchmarkTokens == {<<>>, <<"TOK">>}

\* auth.split("Bearer ")[1], for auth that starts with "Bearer ": what lies
\* between the first "Bearer " and the next one, or the end
split_bearer_1(auth) ==
    LET rest == Tail(auth)
        seps == {i \in DOMAIN rest : rest[i] = "Bearer "}
        stop == IF seps = {} THEN Len(rest) + 1
                ELSE CHOOSE i \in seps : \A j \in seps : i <= j
    IN  SubSeq(rest, 1, stop - 1)

\* benchmark_token_middleware: whether request.state.is_benchmark is set
benchmark_token_middleware(path, auth, test_token) ==
    IF Head(path) # "/stats" THEN FALSE
    ELSE /\ auth # <<>>
         /\ Head(auth) = "Bearer "
         /\ test_token # <<>>
         /\ split_bearer_1(auth) = test_token

\* OAuth2PasswordBearer(auto_error=False): the credentials after the scheme
\* "Bearer", <<>> (None) for no header or another scheme
oauth2_optional(auth) ==
    IF auth # <<>> /\ Head(auth) = "Bearer " THEN Tail(auth) ELSE <<>>

\* the access token the string "JWT" is
TokenOf(credentials) ==
    IF credentials = <<"JWT">>
    THEN make_access_token(1, 1, MaxTime + AccessTtlSec * TicksPerSec)
    ELSE NoToken

\* benchmark_or_auth: BenchmarkUser, or what get_current_user gives
benchmark_or_auth(is_benchmark, credentials, db, t) ==
    IF is_benchmark THEN [kind |-> "BenchmarkUser", id |-> 0]
    ELSE LET user_id == get_current_user(TokenOf(credentials), db, t)
         IN  IF user_id = 0 THEN [kind |-> "401", id |-> 0]
             ELSE [kind |-> "User", id |-> user_id]

\* a request goes through the middleware; GET /stats/dau then resolves its
\* dependency benchmark_or_auth, other paths do not use it
HttpRequest(path, auth, test_token) ==
    /\ LET is_benchmark == benchmark_token_middleware(path, auth, test_token)
       IN  last' = [op |-> "request", status |-> 0, tok |-> NoToken, caller |-> 0,
                    path |-> path, auth |-> auth, test_token |-> test_token,
                    is_benchmark |-> is_benchmark,
                    user |-> IF path = <<"/stats", "/dau">>
                             THEN benchmark_or_auth(is_benchmark, oauth2_optional(auth),
                                                    users, now)
                             ELSE [kind |-> "", id |-> 0]]
    /\ UNCHANGED <<now, users, redis, nextJti, minted, rotated, closed, pwRevoked,
                   regVars, ingestVars, infraVars>>

NextBenchmark ==
    \E path \in Paths, auth \in AuthHeaders, test_token \in BenchmarkTokens :
        HttpRequest(path, auth, test_token)

SpecBenchmark == InitIngest /\ [][NextBenchmark]_vars

----------------------------------------------------------------------------
(* Claims on refresh rotation, the token codec and the session index *)

\* a step that is a request of the given kind (every action writes last)
Served(op) == last'.op = op

\* C1: once a refresh request presenting refresh token T has completed with
\* 200, no later refresh request presenting the same T completes with 200.
C1_RefreshSingleUse ==
    [][~(Served("refresh") /\ last'.status = 200 /\ last'.tok \in rotated)]_vars

\* C2: a refresh token issued by the system at login, not expired, not
\* revoked and present in the cache, is accepted by the refresh request (200).
C2_IssuedRefreshAccepted ==
    [][(/\ Served("refresh")
        /\ last'.tok \in minted
        /\ last'.tok.type = "refresh"
        /\ last'.tok.exp > NowSec(now)
        /\ ~is_revoked(redis, last'.tok.jti, now)
        /\ get_refresh(redis, last'.tok.jti, now)
        /\ nextJti + 2 <= MaxJti)
       => last'.status = 200]_vars

\* C3: decoding a token made by make_access_token / make_refresh_token with
\* the type it was minted as succeeds, for every subject, while it is not
\* expired (the claims returned are the token's own sub and type).
C3_CodecRoundTrip ==
    \A m \in minted : m.exp > NowSec(now) => decode_token(m, m.type, now) = 200

\* C4: after a change-password of user u returned 204, no refresh request
\* presenting a refresh token that u held (issued and still valid) at that
\* time completes with 200.
C4_ChangePasswordRevokesSessions ==
    [][~(Served("refresh") /\ last'.status = 200 /\ last'.tok.jti \in pwRevoked)]_vars

\* C5: every live refresh:{jti} entry written by issuance for user u has its
\* jti in user_sessions:{u}.
C5_SessionIndex ==
    \A j \in DOMAIN redis.refresh :
        KeyLive(redis.refresh, j, now) =>
            <<redis.refresh[j].val.sub, j>> \in redis.user_sessions

----------------------------------------------------------------------------
(* Claims on registration *)

RowsWith(email) == {u \in users : u.email = email}

RequestsFor(email) == {i \in DOMAIN reg : reg[i].email = email}

\* C7: for register requests with the same email, in every interleaving, at
\* most one row with that email is ever persisted; every finished request
\* ended with 201 or 409; exactly one finished request got the 201 when a
\* row exists, and once all are finished exactly one row is persisted.
C7_RegistrationUnique ==
    \A email \in Emails :
        LET done == {i \in RequestsFor(email) : reg[i].pc = "done"}
            created == {i \in done : reg[i].status = 201}
        IN  /\ Cardinality(RowsWith(email)) <= 1
            /\ \A i \in done : reg[i].status \in {201, 409}
            /\ Cardinality(created) = Cardinality(RowsWith(email))
            /\ (done # {} /\ done = RequestsFor(email))
                  => Cardinality(RowsWith(email)) = 1

\* C7 witness: two requests for one email both passed the existence check;
\* one was answered 201 and the other 409
C7_Witness ==
    \E i, j \in DOMAIN reg :
        /\ i # j
        /\ reg[i].email = reg[j].email
        /\ reg[i].passed /\ reg[j].passed
        /\ reg[i].pc = "done" /\ reg[i].status = 201
        /\ reg[j].pc = "done" /\ reg[j].status = 409

----------------------------------------------------------------------------
(* Claims on event ingestion *)

Reported(i) ==
    IF jobs[i].pc = "done" /\ jobs[i].raised = "" THEN jobs[i].inserted ELSE {}

\* C10: in every interleaving of two ingestion jobs (endpoint or CSV batch),
\* no event id has two stored rows, no id is reported inserted by two jobs,
\* and every id a job reported inserted is stored.
C10_NoDoubleInsert ==
    /\ \A r1, r2 \in store : r1.event_id = r2.event_id => r1 = r2
    /\ \A i, j \in DOMAIN jobs : i # j => Reported(i) \cap Reported(j) = {}
    /\ \A i \in DOMAIN jobs : Reported(i) \subseteq StoredIds(store)

\* C10 witness: two finished jobs of different kinds; the commit of one
\* released the other, which waited for a key of that commit; the first
\* reported an id that the other submitted too and did not report
C10_Witness ==
    \E i, j \in DOMAIN jobs :
        /\ i # j
        /\ jobs[i].kind # jobs[j].kind
        /\ jobs[i].pc = "done" /\ jobs[i].raised = "" /\ jobs[i].released
        /\ jobs[j].pc = "done" /\ jobs[j].raised = ""
        /\ Reported(i) \cap IdsOf(jobs[j].batch) # {}
        /\ Reported(j) # {}

----------------------------------------------------------------------------
(* Claims on the auth request handlers *)

\* what the client sees of a response
Observable(response) == [status |-> response.status, detail |-> response.detail]

\* C11: every refused login, whether the email is registered and the
\* password wrong or the email unregistered, is answered with the same 401
\* and the same detail, and leaves the cache, the identifiers drawn and the
\* tokens issued as they were.
C11_LoginFailureIndistinguishable ==
    [][(Served("login") /\ last'.status # 200)
          => /\ Observable(last') = [status |-> 401, detail |-> "Wrong password or email"]
             /\ redis' = redis
             /\ nextJti' = nextJti
             /\ minted' = minted]_vars

\* C11 witness: a login with a registered email and a wrong password was
\* answered 401 while another email is still unregistered
C11_Witness ==
    /\ last.op = "login"
    /\ last.status = 401
    /\ get_user_by_email(users, last.email) # {}
    /\ \E email \in Emails : get_user_by_email(users, email) = {}

\* C12: of the refresh requests in flight that present one refresh token,
\* at most one has found the refresh entry present (has passed the revoked
\* and presence checks, and goes on to mint a new pair).
C12_RefreshRace ==
    \A i, j \in DOMAIN inflight :
        (/\ i # j
         /\ inflight[i].token.jti = inflight[j].token.jti
         /\ inflight[i].passed) => ~inflight[j].passed

\* the cache holds both a revoked marker and a refresh entry for the jti
RevokedAndPresent(jti) ==
    KeyLive(redis.revoked, jti, now) /\ KeyLive(redis.refresh, jti, now)

\* C13: a refresh, or a logout by the authorized owner, with a token that
\* decode_token accepts and whose jti is both marked revoked and present in
\* the refresh cache is rejected (401 in refresh, 409 in logout); it issues
\* no token and leaves the cache as it was.
C13_RevocationDominates ==
    [][((Served("refresh") \/ Served("logout"))
        /\ decode_token(last'.tok, "refresh", now) = 200
        /\ RevokedAndPresent(last'.tok.jti))
          => /\ last'.status = (IF last'.op = "refresh" THEN 401 ELSE 409)
             /\ redis' = redis
             /\ nextJti' = nextJti
             /\ minted' = minted]_vars

\* C13 witness: a logout was answered 409 for a jti that is marked revoked
\* and still present in the refresh cache
C13_Witness ==
    /\ last.op = "logout"
    /\ last.status = 409
    /\ RevokedAndPresent(last.tok.jti)

C15_AuthorizationFirst ==
    [][((Served("logout") \/ Served("change_password"))
        /\ last'.caller # 0
        /\ last'.uid # last'.caller)
          => /\ last'.status = 403
             /\ redis' = redis
             /\ users' = users]_vars

\* the stored hash of the caller verifies the current password of the request
CurrentPasswordOk(response) ==
    \E u \in users : /\ u.id = response.caller
                     /\ verify_password(response.current_password, u.hashed_password)

\* C16: a change-password by an authenticated caller is answered 403 when
\* the path user is not the caller; otherwise 401 when the current password
\* is wrong; otherwise 400 when the new password equals the current one; a
\* request rejected in one of these ways leaves the stored hashes and the
\* cache as they were.
C16_ChangePasswordOrder ==
    [][(Served("change_password") /\ last'.caller # 0)
          => /\ last'.uid # last'.caller => last'.status = 403
             /\ (last'.uid = last'.caller /\ ~CurrentPasswordOk(last'))
                   => last'.status = 401
             /\ (/\ last'.uid = last'.caller
                 /\ CurrentPasswordOk(last')
                 /\ last'.new_password = last'.current_password)
                   => last'.status = 400
             /\ last'.status \in {400, 401, 403} => (users' = users /\ redis' = redis)]_vars

----------------------------------------------------------------------------
(* Claims on the token codec and the token cache *)

\* C17: an unexpired token made as one type and decoded with the other type
\* expected is rejected, with 400 when the access and refresh secrets are
\* equal and with 401 when they differ; decode_token never returns claims
\* whose type is not the expected one.
C17_TypeConfusion ==
    last.op = "decode"
        => /\ last.status = 200 => last.tok.type = last.expected_type
           /\ (last.tok.type # last.expected_type /\ last.tok.exp > NowSec(now))
                 => last.status =
                       (IF last.settings.ACCESS_SECRET = last.settings.REFRESH_SECRET
                        THEN 400 ELSE 401)

\* C18: revoke_refresh(jti) of a refresh entry whose TTL reads <= 0 (no such
\* key, or none left) returns False and leaves every cache key as it was;
\* otherwise it returns True, and after it the revoked marker of jti exists,
\* the refresh entry of jti does not, and the TTL of the marker reads what the
\* TTL of the refresh entry read.
C18_RevokeRefresh ==
    [][Served("revoke_refresh") =>
        LET jti == last'.jti
            ttl == RedisTtl(redis.refresh, jti, now)
        IN  IF ttl <= 0
            THEN last'.result = FALSE /\ redis' = redis
            ELSE /\ last'.result = TRUE
                 /\ KeyLive(redis'.revoked, jti, now')
                 /\ ~KeyLive(redis'.refresh, jti, now')
                 /\ RedisTtl(redis'.revoked, jti, now') = ttl
                 /\ redis'.access = redis.access
                 /\ redis'.user_sessions = redis.user_sessions]_vars

C18_Witness ==
    /\ last.op = "revoke_refresh"
    /\ last.result = TRUE
    /\ KeyLive(redis.revoked, last.jti, now)
    /\ last.jti \notin DOMAIN redis.refresh
    /\ <<1, last.jti>> \in redis.user_sessions \/ <<2, last.jti>> \in redis.user_sessions

\* the members of user_sessions:{user}
MembersOf(sessions, user) == {p[2] : p \in {q \in sessions : q[1] = user}}

\* C19: revoke_all_user_refresh(user) returns the number of members of
\* user_sessions:{user} whose refresh entry had time left; after it no member
\* seen is in the set, whether its revoke succeeded or not, every counted jti
\* has a revoked marker and no refresh entry, and the refresh entries and the
\* session sets of the other users are as before.
C19_RevokeAll ==
    [][Served("revoke_all_user_refresh") =>
        LET user == last'.uid
            members == MembersOf(redis.user_sessions, user)
            counted == {j \in members : RedisTtl(redis.refresh, j, now) > 0}
        IN  /\ last'.result.count = Cardinality(counted)
            /\ MembersOf(redis'.user_sessions, user) = {}
            /\ \A j \in counted : /\ KeyLive(redis'.revoked, j, now')
                                   /\ ~KeyLive(redis'.refresh, j, now')
            /\ \A j \in DOMAIN redis.refresh \ counted :
                   j \in DOMAIN redis'.refresh /\ redis'.refresh[j] = redis.refresh[j]
            /\ DOMAIN redis'.refresh \subseteq DOMAIN redis.refresh
            /\ \A other \in UserIds \ {user} :
                   MembersOf(redis'.user_sessions, other)
                       = MembersOf(redis.user_sessions, other)]_vars

\* a call that saw a stale member and a revocable one, while another user
\* keeps a session
C19_Witness ==
    /\ last.op = "revoke_all_user_refresh"
    /\ last.result.count >= 1
    /\ last.result.seen > last.result.count
    /\ MembersOf(redis.user_sessions, last.uid) = {}
    /\ \E other \in UserIds \ {last.uid} :
           \E j \in MembersOf(redis.user_sessions, other) : KeyLive(redis.refresh, j, now)

\* the keys a step adds to one family of cache keys
Added(before, after) == DOMAIN after \ DOMAIN before

\* every key that was there is still there with its value and expiry
Kept(before, after) ==
    \A k \in DOMAIN before : k \in DOMAIN after /\ after[k] = before[k]

\* the jtis the cache has seen under any key
KnownJtis(r) ==
    DOMAIN r.access \cup DOMAIN r.refresh \cup DOMAIN r.revoked
        \cup {p[2] : p \in r.user_sessions}

\* C20: issue_tokens_for_user(user, access, refresh) adds one access entry iff
\* access was requested and one refresh entry iff refresh was requested, each
\* under the jti of the token returned, new to the cache, with payload
\* {sub: user}; it keeps every entry that was there, writes no revoked marker
\* and no session set; expires_in is set iff access was requested, and the
\* token of a type that was not requested is None.
C20_IssueFrame ==
    [][Served("issue_tokens_for_user") =>
        LET res == last'.result
            user == last'.uid
            newAccess == Added(redis.access, redis'.access)
            newRefresh == Added(redis.refresh, redis'.refresh)
        IN  /\ newAccess = IF res.access THEN {res.access_token.jti} ELSE {}
            /\ newRefresh = IF res.refresh THEN {res.refresh_token.jti} ELSE {}
            /\ res.access /\ res.refresh => res.access_token.jti # res.refresh_token.jti
            /\ (newAccess \cup newRefresh) \cap KnownJtis(redis) = {}
            /\ \A j \in newAccess : redis'.access[j].val = [sub |-> user]
            /\ \A j \in newRefresh : redis'.refresh[j].val = [sub |-> user]
            /\ Kept(redis.access, redis'.access)
            /\ Kept(redis.refresh, redis'.refresh)
            /\ redis'.revoked = redis.revoked
            /\ redis'.user_sessions = redis.user_sessions
            /\ (res.expires_in # NoExpiresIn) <=> res.access
            /\ ~res.access => res.access_token = NoToken
            /\ ~res.refresh => res.refresh_token = NoToken
            /\ res.access => res.access_token # NoToken
            /\ res.refresh => res.refresh_token # NoToken]_vars

\* an access token alone, issued to a user whose registered session is kept
C20_Witness ==
    /\ last.op = "issue_tokens_for_user"
    /\ last.result.access /\ ~last.result.refresh
    /\ last.result.refresh_token = NoToken
    /\ last.result.expires_in = AccessTtlSec
    /\ KeyLive(redis.access, last.result.access_token.jti, now)
    /\ \E j \in MembersOf(redis.user_sessions, last.uid) : KeyLive(redis.refresh, j, now)

----------------------------------------------------------------------------
(* Claims on the CSV import *)

\* a data line that passes the checks of parse_row
ValidLine(row) == row.event_id # ""

\* the rows of the first n data lines that parse, in file order
ParsedOf(file, n) ==
    LET valid == SelectSeq(SubSeq(file, 1, n), ValidLine)
    IN  [i \in DOMAIN valid |->
            [event_id |-> valid[i].event_id, user_id |-> valid[i].user_id]]

\* the batches handed to insert_batch, one after the other
RECURSIVE Flatten(_)
Flatten(calls) ==
    IF calls = <<>> THEN <<>> ELSE Head(calls).batch \o Flatten(Tail(calls))

\* the import has ended, by returning or by an exception
ImportEnded == imp.phase \in {"done", "failed"} /\ imp.raised # "RuntimeError"

\* C21: for batch_size >= 1, the batches import_csv hands to insert_batch,
\* put end to end, are the rows that parsed, once each and in file order (with
\* the rows still waiting in the open batch while the file is being read);
\* every batch has exactly batch_size rows, except that the last one of an
\* import that has ended may have fewer, and none is empty.
C21_ImportBatching ==
    /\ imp.phase = "rows" =>
          /\ Flatten(imp.calls) \o imp.batch = ParsedOf(imp.file, imp.read)
          /\ \A k \in DOMAIN imp.calls : Len(imp.calls[k].batch) = imp.batch_size
    /\ ImportEnded =>
          /\ Flatten(imp.calls) = ParsedOf(imp.file, imp.read)
          /\ \A k \in DOMAIN imp.calls :
                 /\ Len(imp.calls[k].batch) \in 1..imp.batch_size
                 /\ k < Len(imp.calls) => Len(imp.calls[k].batch) = imp.batch_size
    /\ imp.phase = "done" => imp.read = Len(imp.file)

\* a whole file imported in two full batches and a shorter last one, with an
\* invalid line in between
C21_Witness ==
    /\ imp.phase = "done"
    /\ imp.batch_size >= 2
    /\ Len(imp.calls) >= 2
    /\ Len(imp.calls[Len(imp.calls)].batch) < imp.batch_size
    /\ imp.read > imp.parsed

\* the data lines of the file that fail parse_row
InvalidLines(file) == {i \in DOMAIN file : ~ValidLine(file[i])}

\* C22: when import_csv completes it has read every line, parsed <= read,
\* read - parsed is the number of invalid lines, and inserted + duplicates =
\* parsed, inserted being the rows the import added to the table; reading an
\* invalid line does not end the import and changes neither the table nor
\* the counts of parsed, inserted and duplicate rows.
C22_ImportAccounting ==
    [][/\ imp'.phase = "done" =>
            /\ imp'.read = Len(imp'.file)
            /\ imp'.parsed <= imp'.read
            /\ imp'.read - imp'.parsed = Cardinality(InvalidLines(imp'.file))
            /\ imp'.inserted + imp'.duplicates = imp'.parsed
            /\ imp'.inserted = Cardinality(store')
       /\ (/\ imp.phase = "rows"
           /\ imp'.read = imp.read + 1
           /\ ~ValidLine(imp.file[imp.read + 1])) =>
            /\ imp'.phase = "rows"
            /\ store' = store
            /\ imp'.calls = imp.calls
            /\ <<imp'.parsed, imp'.inserted, imp'.duplicates>>
                  = <<imp.parsed, imp.inserted, imp.duplicates>>]_vars

\* a completed import that met an invalid line, a duplicate and a new row
C22_Witness ==
    /\ imp.phase = "done"
    /\ imp.read > imp.parsed
    /\ imp.duplicates >= 1
    /\ imp.inserted >= 1

\* the rows of the table written by the k-th call of insert_batch
WrittenBy(rows, k) == {r \in rows : r.txn = k}

\* C23: when insert_batch raises on batch N, the table is what batches
\* 1..N-1 left (each of them committed, its rows still there), batch N has
\* written no row, the counters keep the sums of batches 1..N-1, and the
\* engine is disposed.
C23_ImportBestEffort ==
    [][(imp.phase = "rows" /\ imp'.phase = "failed") =>
        LET N == Len(imp'.calls)
        IN  /\ store' = store
            /\ WrittenBy(store', N) = {}
            /\ \A k \in 1..(N - 1) :
                   /\ imp'.calls[k].raised = ""
                   /\ Cardinality(WrittenBy(store', k)) = imp'.calls[k].count
            /\ imp'.inserted = imp.inserted
            /\ imp'.disposed]_vars

\* the second batch or a later one failed, with a row in it that could have
\* been written, after an earlier batch had stored rows
C23_Witness ==
    /\ imp.phase = "failed"
    /\ imp.raised = "IntegrityError"
    /\ Len(imp.calls) >= 2
    /\ store # {}
    /\ imp.disposed
    /\ \E i \in DOMAIN imp.batch :
           /\ imp.batch[i].user_id = 1
           /\ imp.batch[i].event_id \notin StoredIds(store)

----------------------------------------------------------------------------
(* Claims on the Resources singleton and the benchmark bypass *)

\* the handles start() assigns
HandlesOf(res) == <<res.redis, res.http, res.metrics_service, res.metrics_task, res.made>>

\* C24: start() creates clients only when the singleton is not started (a
\* start() on a started one replaces nothing); stop() on one that is not
\* started changes nothing; _started is True exactly when the last call that
\* did something was a start() that returned; and after stop() the redis
\* handle is None.
C24_ResourcesLifecycle ==
    [][LET call == resources'.call
       IN  /\ (call.op = "start" /\ resources._started) =>
                 /\ HandlesOf(resources') = HandlesOf(resources)
                 /\ resources'._started
           /\ (call.op = "stop" /\ ~resources._started) =>
                 /\ HandlesOf(resources') = HandlesOf(resources)
                 /\ resources'.closed = resources.closed
                 /\ resources'.disposed = resources.disposed
                 /\ ~resources'._started
           /\ resources'._started <=> resources'.lastEffective = "start"
           /\ call.op = "stop" => resources'.redis = NoHandle]_vars

\* the bearer token of a request: the credentials of an Authorization header
\* of scheme Bearer
BearerTokenOf(auth) == IF auth # <<>> /\ Head(auth) = "Bearer " THEN Tail(auth) ELSE <<>>

\* C25: is_benchmark is set only for a request whose path starts with /stats
\* and whose bearer token equals a configured, non-empty BENCHMARK_TOKEN;
\* benchmark_or_auth gives the BenchmarkUser only when the flag is set, and
\* otherwise a user only to a request that authenticates with its token.
C25_BenchmarkConfined ==
    last.op = "request" =>
        /\ last.is_benchmark =>
              /\ Head(last.path) = "/stats"
              /\ last.test_token # <<>>
              /\ BearerTokenOf(last.auth) = last.test_token
        /\ last.user.kind = "BenchmarkUser" => last.is_benchmark
        /\ last.user.kind = "User" => BearerTokenOf(last.auth) = <<"JWT">>

----------------------------------------------------------------------------
(* Claims on the expiry of cache keys *)

\* C26: the revoked marker written by revoke_refresh(jti) expires no later
\* than the refresh entry it replaces, and the one written by
\* revoke(jti, exp) no later than exp.
C26_MarkerNeverOutlives ==
    [][/\ (Served("revoke_refresh") /\ last'.result = TRUE) =>
            redis'.revoked[last'.jti].exp <= redis.refresh[last'.jti].exp
       /\ (Served("revoke") /\ redis'.revoked # redis.revoked) =>
            redis'.revoked[last'.jti].exp <= last'.result]_vars

\* C27: ttl_of_refresh(jti) is never negative: it is 0 when refresh:{jti}
\* is absent or expired, and else the time the entry has left, in seconds.
C27_TtlOfRefresh ==
    last.op = "ttl_of_refresh" =>
        /\ last.result >= 0
        /\ IF KeyLive(redis.refresh, last.jti, now)
           THEN LET left == redis.refresh[last.jti].exp - now
                IN  /\ last.result * TicksPerSec - left < TicksPerSec
                    /\ left - last.result * TicksPerSec < TicksPerSec
           ELSE last.result = 0

\* the key family a writer of the cache writes
FamilyOf(r, op) ==
    IF op = "store_access" THEN r.access
    ELSE IF op = "revoke" THEN r.revoked
    ELSE r.refresh

\* C28: register_refresh, store_access, store_refresh and revoke called with
\* exp <= now change nothing in the cache (no key, no member of
\* user_sessions); called with exp > now they write their key so that it
\* expires at exp, within the second the whole-second TTL allows, and
\* register_refresh adds the jti to the user's set.
C28_ExpiredNeverStored ==
    [][last'.op \in {"register_refresh", "store_access", "store_refresh", "revoke"} =>
        LET exp == last'.result
            jti == last'.jti
            written == FamilyOf(redis', last'.op)
        IN  IF exp <= now
            THEN redis' = redis
            ELSE /\ KeyLive(written, jti, now')
                 /\ written[jti].exp <= exp
                 /\ exp - written[jti].exp < TicksPerSec
                 /\ last'.op = "register_refresh" =>
                        <<last'.uid, jti>> \in redis'.user_sessions]_vars

----------------------------------------------------------------------------
(* Claims on the defaults of the token codec *)

\* C29: a token made with jti omitted carries a jti (a generated one, that
\* no token made before carries), so that it has every claim decode_token
\* requires.
C29_DefaultJti ==
    [][Served("make_default") =>
        /\ last'.tok.jti # Absent
        /\ \A m \in minted : m.jti # last'.tok.jti]_vars

\* the token is one decode_token has no reason to refuse but its expiry
WellSigned(call) ==
    /\ call.tok.key = (IF call.expected_type = "access"
                       THEN call.settings.ACCESS_SECRET
                       ELSE call.settings.REFRESH_SECRET)
    /\ call.tok.type = call.expected_type
    /\ call.tok.aud = DecodeAudience
    /\ call.tok.iss = DecodeIssuer
    /\ Absent \notin {call.tok.exp, call.tok.sub, call.tok.jti}

\* C30: decode_token accepts a well signed token whose exp lies less than
\* the leeway in the past, and refuses with 401 one whose exp lies more than
\* the leeway in the past.
C30_DecodeLeeway ==
    (last.op = "decode" /\ WellSigned(last)) =>
        LET past == NowSec(now) - last.tok.exp
        IN  /\ past < LeewaySec => last.status = 200
            /\ past > LeewaySec => last.status = 401

----------------------------------------------------------------------------
\* C31: whenever the commit of the new password hash raises, whatever the
\* error of the store, the session is rolled back, the caller gets a 500
\* whose body is a fixed text and not the text of the error, the stored
\* hash is the old one, and no refresh session is revoked: neither the
\* users nor the cache change.
C31_CommitFailure ==
    [][(Served("change_password") /\ last'.commit \in CommitOutcomes \ {"ok"})
        => /\ last'.status = 500
           /\ last'.detail \in {"Could not change password due to a database error.",
                                "Internal Server Error"}
           /\ last'.detail # InternalErrorText
           /\ last'.rollback # "none"
           /\ users' = users
           /\ redis' = redis
           /\ pwRevoked' = pwRevoked]_vars

\* a commit raised an error the handler does not name, for a caller who
\* has a live refresh session
C31_Witness ==
    /\ last.op = "change_password"
    /\ last.commit = "OperationalError"
    /\ SessionsOf(redis, last.caller, now) # {}

----------------------------------------------------------------------------
\* the keys of the cache that exist at t, and the members of the session sets
KeysOf(r, t) ==
    [access |-> {j \in DOMAIN r.access : KeyLive(r.access, j, t)},
     refresh |-> {j \in DOMAIN r.refresh : KeyLive(r.refresh, j, t)},
     revoked |-> {j \in DOMAIN r.revoked : KeyLive(r.revoked, j, t)},
     user_sessions |-> r.user_sessions]

\* C32: for each of register_refresh, store_access, store_refresh, revoke,
\* revoke_refresh, revoke_all_user_refresh, delete_access and delete_refresh,
\* the same call made a second time at once leaves the access, refresh and
\* revoked keys and the members of the session sets as the first call left
\* them.
C32_IdempotentRetry ==
    [][(last'.op \in RetryOps /\ last'.retry)
        => KeysOf(redis', now') = KeysOf(redis, now)]_vars

\* a revoke_refresh that moved a live entry to the revoked markers has been
\* made again
C32_Witness ==
    /\ last.op = "revoke_refresh"
    /\ last.retry
    /\ KeyLive(redis.revoked, last.jti, now)
    /\ ~KeyLive(redis.refresh, last.jti, now)
    /\ \E u \in UserIds : <<u, last.jti>> \in redis.user_sessions

----------------------------------------------------------------------------
\* a refresh of the token with this jti would pass the two checks of the cache
Accepted(jti) == ~is_revoked(redis, jti, now) /\ get_refresh(redis, jti, now)

\* the refresh entries revoke_all_user_refresh of the owner gets to
InReach(jti) == <<redis.refresh[jti].val.sub, jti>> \in redis.user_sessions

Cancelled == inflight # <<>> /\ inflight[1].pc = "cancelled"

\* C33: after a request was cancelled at an await inside register_refresh,
\* revoke_refresh, revoke_all_user_refresh, logout or refresh, no token it
\* had begun to revoke is accepted, and every live refresh entry that is not
\* revoked is a member of its user's session set, where
\* revoke_all_user_refresh finds it.
C33_NoTornState ==
    Cancelled =>
        /\ \A jti \in inflight[1].began : ~Accepted(jti)
        /\ \A jti \in DOMAIN redis.refresh : Accepted(jti) => InReach(jti)

----------------------------------------------------------------------------
\* C34: POST /events/ with an empty list answers inserted = [] and
\* duplicates = [] and has executed no statement, made no commit and
\* recorded no metric event; insert_batch with an empty batch returns 0 and
\* has not called engine.begin().  Neither changes a row of the table.
C34_EmptyIsNoOp ==
    [][/\ (ingested'.kind = "http" /\ ingested'.batch = <<>>)
            => /\ ingested'.status = 201
               /\ ingested'.inserted = {}
               /\ ingested'.duplicates = {}
               /\ ingested'.executed = 0
               /\ ingested'.committed = 0
               /\ ingested'.recorded = 0
               /\ store' = store
       /\ (ingested'.kind = "insert_batch" /\ ingested'.batch = <<>>)
            => /\ ingested'.count = 0
               /\ ingested'.raised = ""
               /\ ingested'.begun = 0
               /\ store' = store]_vars

\* an empty list was posted to a table that has rows
C34_Witness ==
    /\ ingested.kind = "http"
    /\ ingested.batch = <<>>
    /\ ingested.status = 201
    /\ store # {}

----------------------------------------------------------------------------
\* C35: a refresh that is refused, because the token does not decode, its
\* jti is revoked or its refresh entry is absent, mints no token and
\* creates, changes or deletes no key of the cache (access, refresh,
\* revoked, user_sessions).
C35_RejectedRefreshNoEffect ==
    [][(Served("refresh") /\ last'.status # 200)
        => /\ redis' = redis
           /\ minted' = minted
           /\ nextJti' = nextJti]_vars

\* a refresh was refused for a token that decodes, whose jti is revoked and
\* whose refresh entry is still there
C35_Witness ==
    /\ last.op = "refresh"
    /\ last.status = 401
    /\ decode_token(last.tok, "refresh", now) = 200
    /\ is_revoked(redis, last.tok.jti, now)
    /\ get_refresh(redis, last.tok.jti, now)

----------------------------------------------------------------------------
\* C36: a refresh that succeeds mints a pair, and every token of the pair
\* has the sub of the refresh token that was presented, whatever user_id
\* the path of the request names; no caller is authenticated.
C36_RefreshPreservesIdentity ==
    [][(Served("refresh") /\ last'.status = 200)
        => /\ Cardinality(minted' \ minted) = 2
           /\ \A m \in minted' \ minted : m.sub = last'.tok.sub
           /\ last'.caller = 0]_vars

\* a refresh succeeded under a path that names another registered user,
\* who has a session too
C36_Witness ==
    /\ last.op = "refresh"
    /\ last.status = 200
    /\ last.uid # last.tok.sub
    /\ last.uid \in {u.id : u \in users}
    /\ \E m \in minted : m.type = "refresh" /\ m.sub = last.uid

----------------------------------------------------------------------------
\* C37: a logout that succeeds for the authenticated user u revokes a
\* refresh token only if the sub of that token is u: a marker appears, or
\* a refresh entry disappears, only for a token of the caller.
C37_LogoutOwnSessions ==
    [][(Served("logout") /\ last'.status = 204)
        => /\ last'.tok.sub = last'.caller
           /\ \A m \in minted :
                 (m.type = "refresh" /\ m.sub # last'.caller)
                    => /\ is_revoked(redis', m.jti, now) = is_revoked(redis, m.jti, now)
                       /\ get_refresh(redis', m.jti, now) = get_refresh(redis, m.jti, now)]_vars

----------------------------------------------------------------------------
\* C38: logout, refresh and change-password, whatever their answer, leave
\* every access entry of the cache as it was and mark no jti of an access
\* entry revoked, and every access token the system issued that has not
\* reached its exp is accepted by get_current_user after them.
C38_AccessOutsideRevocation ==
    [][(Served("logout") \/ Served("refresh") \/ Served("change_password"))
        => /\ \A jti \in DOMAIN redis.access :
                 /\ jti \in DOMAIN redis'.access
                 /\ redis'.access[jti] = redis.access[jti]
                 /\ is_revoked(redis', jti, now') = is_revoked(redis, jti, now)
           /\ \A m \in minted :
                 (m.type = "access" /\ NowSec(now') <= m.exp)
                    => get_current_user(m, users', now') = m.sub]_vars

\* a password was changed, and an access token issued before it, whose
\* entry is still in the cache, is accepted
C38_Witness ==
    /\ last.op = "change_password"
    /\ last.status = 204
    /\ \E m \in minted :
          /\ m.type = "access"
          /\ m.sub = last.caller
          /\ get_access(redis, m.jti, now)
          /\ get_current_user(m, users, now) = m.sub

============================================================================
